---- MODULE Spec2Model ----
(***************************************************************************)
(* A model of the feature-store transcoding tools of vertex-ai-benchmarker *)
(* (cli/lib/data_importer.py, cli/lib/data_exporter.py and the data        *)
(* classes of cli/lib/featurestore_data_classes.py).                       *)
(*                                                                         *)
(* Python strings are sequences of one-character strings, so that string   *)
(* formatting, case conversion, regular-expression matching and CSV        *)
(* quoting are computed and not assumed.  Python dicts (insertion ordered) *)
(* are sequences of [key, val] records.                                    *)
(***************************************************************************)
EXTENDS Integers, Sequences, FiniteSets, TLC

(***************************************************************************)
(* Bounds of the model.                                                    *)
(***************************************************************************)
\* rows read by one parse of a flat file
MaxLines == 3
\* rows of the file one run of the import tool is given
MaxFileLines == 2
\* runs of the import tool over the same file
MaxRuns == 2

(***************************************************************************)
(* Strings.                                                                *)
(***************************************************************************)
LowerToUpper ==
  [a |-> "A", b |-> "B", c |-> "C", d |-> "D", e |-> "E", f |-> "F", g |-> "G",
   h |-> "H", i |-> "I", j |-> "J", k |-> "K", l |-> "L", m |-> "M", n |-> "N",
   o |-> "O", p |-> "P", q |-> "Q", r |-> "R", s |-> "S", t |-> "T", u |-> "U",
   v |-> "V", w |-> "W", x |-> "X", y |-> "Y", z |-> "Z"]

\* str.upper()
Upper(str) ==
  [i \in 1..Len(str) |->
     IF str[i] \in DOMAIN LowerToUpper THEN LowerToUpper[str[i]] ELSE str[i]]

(***************************************************************************)
(* Insertion-ordered dicts and defaultdicts.                               *)
(***************************************************************************)
Has(dict, key) == \E i \in 1..Len(dict) : dict[i].key = key

IndexOf(dict, key) == CHOOSE i \in 1..Len(dict) : dict[i].key = key

Get(dict, key) == dict[IndexOf(dict, key)].val

\* dict[key] = val : an existing key keeps its place, a new key goes last
Put(dict, key, val) ==
  IF Has(dict, key)
    THEN [dict EXCEPT ![IndexOf(dict, key)].val = val]
    ELSE Append(dict, [key |-> key, val |-> val])

Keys(dict) == [i \in 1..Len(dict) |-> dict[i].key]

KeySet(dict) == {dict[i].key : i \in 1..Len(dict)}

\* defaultdict.__getitem__ : the value read, the default for a missing key
DefaultGet(dict, key, default) == IF Has(dict, key) THEN Get(dict, key) ELSE default

(***************************************************************************)
(* featurestore_data_classes.py                                            *)
(***************************************************************************)
VALUE_TYPE_UNSPECIFIED == "VALUE_TYPE_UNSPECIFIED"

\* Feature.ValueType members, each with its name
ValueTypeName ==
  [VALUE_TYPE_UNSPECIFIED |->
     <<"V","A","L","U","E","_","T","Y","P","E","_",
       "U","N","S","P","E","C","I","F","I","E","D">>,
   BOOL         |-> <<"B","O","O","L">>,
   BOOL_ARRAY   |-> <<"B","O","O","L","_","A","R","R","A","Y">>,
   DOUBLE       |-> <<"D","O","U","B","L","E">>,
   DOUBLE_ARRAY |-> <<"D","O","U","B","L","E","_","A","R","R","A","Y">>,
   INT64        |-> <<"I","N","T","6","4">>,
   INT64_ARRAY  |-> <<"I","N","T","6","4","_","A","R","R","A","Y">>,
   STRING       |-> <<"S","T","R","I","N","G">>,
   STRING_ARRAY |-> <<"S","T","R","I","N","G","_","A","R","R","A","Y">>,
   BYTES        |-> <<"B","Y","T","E","S">>]

ValueType == DOMAIN ValueTypeName

ArrayValueTypes == {"BOOL_ARRAY", "DOUBLE_ARRAY", "INT64_ARRAY", "STRING_ARRAY"}

FeatureMetadata == [data_type |-> VALUE_TYPE_UNSPECIFIED]

Feature == [value |-> <<>>]

Entity == [features |-> <<>>]

EntityType == [features_metadata |-> <<>>, entities |-> <<>>]

Featurestore == [entity_types |-> <<>>]

(***************************************************************************)
(* data_importer.py : parsing the flat file.                               *)
(***************************************************************************)
\* the characters of the '_' separator and of str(uuid4())[:5]
SuffixLen == 5

\* mutant: only a row of fewer than 12 tokens is refused
ParseValuesFewerThan12(row) ==
  IF Len(row) < 12
    THEN [success |-> FALSE, featurestore_id |-> <<>>, entity_type_id |-> <<>>,
          entity_id |-> <<>>, feature_id |-> <<>>, feature_data_type |-> <<>>,
          feature_value |-> <<>>]
    ELSE [success |-> TRUE, featurestore_id |-> row[2], entity_type_id |-> row[4],
          entity_id |-> row[6], feature_id |-> row[8],
          feature_data_type |-> row[10], feature_value |-> row[12]]

\* row: the list of tokens csv.reader yields for one line
ParseValues(row) ==
  IF Len(row) # 12
    THEN [success |-> FALSE, featurestore_id |-> <<>>, entity_type_id |-> <<>>,
          entity_id |-> <<>>, feature_id |-> <<>>, feature_data_type |-> <<>>,
          feature_value |-> <<>>]
    ELSE [success |-> TRUE, featurestore_id |-> row[2], entity_type_id |-> row[4],
          entity_id |-> row[6], feature_id |-> row[8],
          feature_data_type |-> row[10], feature_value |-> row[12]]

\* mutant: the mapped name is the suffix after a fixed prefix
MappedNameSuffixAlone(featurestore_id, uuid4) ==
  <<"f", "s", "_">> \o SubSeq(uuid4, 1, SuffixLen)

\* f'{featurestore_id}_{str(uuid4())[:5]}'
MappedName(featurestore_id, uuid4) ==
  featurestore_id \o <<"_">> \o SubSeq(uuid4, 1, SuffixLen)

\* mutant: a new name is generated at every call
MapFeaturestoreAlways(featurestore_id_map, featurestore_id, uuid4) ==
  [featurestore_id_map |->
     Put(featurestore_id_map, featurestore_id, MappedName(featurestore_id, uuid4)),
   featurestore_id |-> MappedName(featurestore_id, uuid4),
   generated |-> 1]

\* _map_featurestore: the id map afterwards, the mapped id whose featurestore is
\* returned, and the number of names it generated
MapFeaturestore(featurestore_id_map, featurestore_id, uuid4) ==
  IF ~Has(featurestore_id_map, featurestore_id)
    THEN [featurestore_id_map |->
            Put(featurestore_id_map, featurestore_id,
                MappedName(featurestore_id, uuid4)),
          featurestore_id |-> MappedName(featurestore_id, uuid4),
          generated |-> 1]
    ELSE [featurestore_id_map |-> featurestore_id_map,
          featurestore_id |-> Get(featurestore_id_map, featurestore_id),
          generated |-> 0]

\* Feature.ValueType[name] : the member of that name; KeyError when there is none
ValueTypeKeyError(name) == \A vt \in ValueType : ValueTypeName[vt] # name

ValueTypeByName(name) == CHOOSE vt \in ValueType : ValueTypeName[vt] = name

\* mutant: the type is looked up and recorded on every line (last write wins)
SetFeatureMetadataLastWins(feature_id, feature_data_type, entity_type) ==
  LET upper == Upper(feature_data_type) IN
  IF ValueTypeKeyError(upper)
    THEN [success |-> FALSE, entity_type |-> entity_type, warnings |-> 1]
  ELSE IF ValueTypeByName(upper) \in ArrayValueTypes
    THEN [success |-> FALSE, entity_type |-> entity_type, warnings |-> 1]
  ELSE [success |-> TRUE,
        entity_type |->
          [entity_type EXCEPT !.features_metadata =
             Put(@, feature_id, [data_type |-> ValueTypeByName(upper)])],
        warnings |-> 0]

\* mutant: array types are accepted
SetFeatureMetadataArrays(feature_id, feature_data_type, entity_type) ==
  IF ~Has(entity_type.features_metadata, feature_id)
    THEN LET upper == Upper(feature_data_type) IN
         IF ValueTypeKeyError(upper)
           THEN [success |-> FALSE, entity_type |-> entity_type, warnings |-> 1]
         ELSE [success |-> TRUE,
               entity_type |->
                 [entity_type EXCEPT !.features_metadata =
                    Put(@, feature_id, [data_type |-> ValueTypeByName(upper)])],
               warnings |-> 0]
    ELSE [success |-> TRUE, entity_type |-> entity_type, warnings |-> 0]

\* mutant: a blank token for a feature without recorded type records the
\* unspecified type
SetFeatureMetadataBlankUnspecified(feature_id, feature_data_type, entity_type) ==
  IF ~Has(entity_type.features_metadata, feature_id)
    THEN LET upper == Upper(feature_data_type) IN
         IF upper = <<>>
           THEN [success |-> TRUE,
                 entity_type |->
                   [entity_type EXCEPT !.features_metadata =
                      Put(@, feature_id, FeatureMetadata)],
                 warnings |-> 0]
         ELSE IF ValueTypeKeyError(upper)
           THEN [success |-> FALSE, entity_type |-> entity_type, warnings |-> 1]
         ELSE IF ValueTypeByName(upper) \in ArrayValueTypes
           THEN [success |-> FALSE, entity_type |-> entity_type, warnings |-> 1]
         ELSE [success |-> TRUE,
               entity_type |->
                 [entity_type EXCEPT !.features_metadata =
                    Put(@, feature_id, [data_type |-> ValueTypeByName(upper)])],
               warnings |-> 0]
    ELSE [success |-> TRUE, entity_type |-> entity_type, warnings |-> 0]

\* [success, entity_type, warnings]: the result, the entity type afterwards and
\* the number of logging.warning calls
SetFeatureMetadata(feature_id, feature_data_type, entity_type) ==
  IF ~Has(entity_type.features_metadata, feature_id)
    THEN LET upper == Upper(feature_data_type) IN
         IF ValueTypeKeyError(upper)
           THEN [success |-> FALSE, entity_type |-> entity_type, warnings |-> 1]
         ELSE IF ValueTypeByName(upper) \in ArrayValueTypes
           THEN [success |-> FALSE, entity_type |-> entity_type, warnings |-> 1]
         ELSE [success |-> TRUE,
               entity_type |->
                 [entity_type EXCEPT !.features_metadata =
                    Put(@, feature_id, [data_type |-> ValueTypeByName(upper)])],
               warnings |-> 0]
    ELSE [success |-> TRUE, entity_type |-> entity_type, warnings |-> 0]

\* mutant: a value that is already there is kept
SetFeatureValueFirstWins(entity_type, entity_id, feature_id, feature_value) ==
  LET entity  == DefaultGet(entity_type.entities, entity_id, Entity)
      feature == DefaultGet(entity.features, feature_id, Feature)
  IN  [entity_type EXCEPT !.entities =
         Put(@, entity_id,
             [entity EXCEPT !.features =
                Put(@, feature_id,
                    IF Has(entity.features, feature_id)
                      THEN feature
                      ELSE [feature EXCEPT !.value = feature_value])])]

\* entity_type.entities[entity_id].features[feature_id].value = feature_value
SetFeatureValue(entity_type, entity_id, feature_id, feature_value) ==
  LET entity  == DefaultGet(entity_type.entities, entity_id, Entity)
      feature == DefaultGet(entity.features, feature_id, Feature)
  IN  [entity_type EXCEPT !.entities =
         Put(@, entity_id,
             [entity EXCEPT !.features =
                Put(@, feature_id, [feature EXCEPT !.value = feature_value])])]

\* st = [featurestores, featurestore_id_map, warnings, generated]
StoreValues(st, v, uuid4) ==
  LET mapped       == MapFeaturestore(st.featurestore_id_map, v.featurestore_id, uuid4)
      featurestore == DefaultGet(st.featurestores, mapped.featurestore_id, Featurestore)
      entity_type  == DefaultGet(featurestore.entity_types, v.entity_type_id, EntityType)
      meta         == SetFeatureMetadata(v.feature_id, v.feature_data_type, entity_type)
      stored       == IF meta.success
                        THEN SetFeatureValue(meta.entity_type, v.entity_id,
                                             v.feature_id, v.feature_value)
                        ELSE meta.entity_type
  IN  [featurestores |->
         Put(st.featurestores, mapped.featurestore_id,
             [featurestore EXCEPT !.entity_types = Put(@, v.entity_type_id, stored)]),
       featurestore_id_map |-> mapped.featurestore_id_map,
       warnings |-> st.warnings + meta.warnings,
       generated |-> st.generated + mapped.generated]

\* one iteration of the loop over the rows of the file
ParseRow(st, row, uuid4) ==
  LET v == ParseValues(row) IN
  IF v.success
    THEN StoreValues(st, v, uuid4)
    ELSE [st EXCEPT !.warnings = @ + 1]

EmptyParse ==
  [featurestores |-> <<>>, featurestore_id_map |-> <<>>, warnings |-> 0,
   generated |-> 0]

(***************************************************************************)
(* data_importer.py : creating the schema and uploading the data.          *)
(***************************************************************************)
Remove(dict, key) == SelectSeq(dict, LAMBDA entry : entry.key # key)

ENTITY_ID_ == <<"e","n","t","i","t","y","_","i","d","_">>
DOT_CSV == <<".","c","s","v">>

\* the calls _create_schema makes, in the order of its loops
RECURSIVE EntityTypeSchemaCalls(_, _)
EntityTypeSchemaCalls(featurestore_id, entity_types) ==
  IF entity_types = <<>> THEN <<>>
  ELSE <<[op |-> "create_entity_type", featurestore_id |-> featurestore_id,
          entity_type_id |-> Head(entity_types).key, arg |-> <<>>],
         [op |-> "batch_create_features", featurestore_id |-> featurestore_id,
          entity_type_id |-> Head(entity_types).key,
          arg |-> Head(entity_types).val.features_metadata]>>
       \o EntityTypeSchemaCalls(featurestore_id, Tail(entity_types))

RECURSIVE CreateSchema(_)
CreateSchema(fss) ==
  IF fss = <<>> THEN <<>>
  ELSE <<[op |-> "create_featurestore", featurestore_id |-> Head(fss).key,
          entity_type_id |-> <<>>, arg |-> <<>>]>>
       \o EntityTypeSchemaCalls(Head(fss).key, Head(fss).val.entity_types)
       \o CreateSchema(Tail(fss))

\* the (featurestore, entity type) pairs _upload_data visits, in the order of its loops
RECURSIVE UploadData(_)
UploadData(fss) ==
  IF fss = <<>> THEN <<>>
  ELSE [j \in 1..Len(Head(fss).val.entity_types) |->
          [featurestore_id |-> Head(fss).key,
           entity_type_id |-> Head(fss).val.entity_types[j].key]]
       \o UploadData(Tail(fss))

\* f'{entity_type_id}_{str(uuid4())[:5]}.csv'
BlobFilename(entity_type_id, uuid4) ==
  entity_type_id \o <<"_">> \o SubSeq(uuid4, 1, SuffixLen) \o DOT_CSV

\* _write_header: the header row
WriteHeader(entity_type, uuid4) ==
  <<ENTITY_ID_ \o SubSeq(uuid4, 1, SuffixLen)>> \o Keys(entity_type.features_metadata)

\* mutant: only the features the entity has a value for are written
WriteRowPresentOnly(entity_type, entity_id, entity) ==
  <<entity_id>> \o [m \in 1..Len(entity.features) |-> entity.features[m].val.value]

\* _write_row: the row written for one entity ...
WriteRow(entity_type, entity_id, entity) ==
  <<entity_id>> \o
  [m \in 1..Len(entity_type.features_metadata) |->
     DefaultGet(entity.features, entity_type.features_metadata[m].key, Feature).value]

\* ... and the entity afterwards: entity.features is a defaultdict, reading a
\* missing feature inserts it
WriteRowEntity(entity_type, entity) ==
  LET missing == SelectSeq(Keys(entity_type.features_metadata),
                           LAMBDA feature_id : ~Has(entity.features, feature_id))
  IN  [entity EXCEPT !.features =
         @ \o [m \in 1..Len(missing) |-> [key |-> missing[m], val |-> Feature]]]

\* _upload_data_file: the rows of the CSV file and the entity type afterwards
UploadDataFileCsv(entity_type, uuid4) ==
  <<WriteHeader(entity_type, uuid4)>> \o
  [k \in 1..Len(entity_type.entities) |->
     WriteRow(entity_type, entity_type.entities[k].key, entity_type.entities[k].val)]

UploadDataFileEntityType(entity_type) ==
  [entity_type EXCEPT !.entities =
     [k \in 1..Len(@) |->
        [key |-> @[k].key, val |-> WriteRowEntity(entity_type, @[k].val)]]]

(***************************************************************************)
(* The csv module, as the tools use it: csv.writer / csv.reader with the   *)
(* default dialect (minimal quoting, doubled quote characters, lines       *)
(* ended by CR LF) and the given delimiter, on files opened with newline=''*)
(***************************************************************************)
QUOTE == "\""
CR == "\r"
LF == "\n"

Contains(str, chars) == \E i \in 1..Len(str) : str[i] \in chars

RECURSIVE DoubleQuotes(_)
DoubleQuotes(str) ==
  IF str = <<>> THEN <<>>
  ELSE (IF Head(str) = QUOTE THEN <<QUOTE, QUOTE>> ELSE <<Head(str)>>)
       \o DoubleQuotes(Tail(str))

\* mutant: a writer that never quotes
CsvFieldUnquoted(field, delimiter) == field

\* a field as csv.writer writes it
CsvField(field, delimiter) ==
  IF Contains(field, {delimiter, QUOTE, CR, LF})
    THEN <<QUOTE>> \o DoubleQuotes(field) \o <<QUOTE>>
    ELSE field

RECURSIVE CsvJoin(_, _)
CsvJoin(fields, delimiter) ==
  IF fields = <<>> THEN <<>>
  ELSE IF Len(fields) = 1 THEN CsvField(fields[1], delimiter)
  ELSE CsvField(fields[1], delimiter) \o <<delimiter>> \o CsvJoin(Tail(fields), delimiter)

\* csv.writer(file, delimiter).writerow(fields): the text written
CsvWriteRow(fields, delimiter) == CsvJoin(fields, delimiter) \o <<CR, LF>>

RECURSIVE CsvWriteRows(_, _)
CsvWriteRows(rows, delimiter) ==
  IF rows = <<>> THEN <<>>
  ELSE CsvWriteRow(Head(rows), delimiter) \o CsvWriteRows(Tail(rows), delimiter)

\* the first of the run of quotes that reaches position k, from position i on
RunStart(text, i, k) ==
  CHOOSE j \in i..k :
    /\ \A m \in j..k : text[m] = QUOTE
    /\ j = i \/ text[j - 1] # QUOTE

\* the position of the quote that closes the quoted field whose text starts at
\* position i (a doubled quote does not close it); past the end when unclosed
ClosingQuote(text, i) ==
  LET closing == {k \in i..Len(text) :
                    /\ text[k] = QUOTE
                    /\ k = Len(text) \/ text[k + 1] # QUOTE
                    /\ (k - RunStart(text, i, k)) % 2 = 0}
  IN IF closing = {} THEN Len(text) + 1
     ELSE CHOOSE k \in closing : \A other \in closing : k <= other

\* the text of a quoted field: the second quote of each doubled quote is dropped
UndoubleQuotes(str) ==
  LET kept == SelectSeq([p \in 1..Len(str) |-> p],
                        LAMBDA p : ~(str[p] = QUOTE /\ (p - RunStart(str, 1, p)) % 2 = 1))
  IN [n \in 1..Len(kept) |-> str[kept[n]]]

\* the first position from i on that holds one of chars; past the end when none
FirstOf(text, i, chars) ==
  LET found == {k \in i..Len(text) : text[k] \in chars} IN
  IF found = {} THEN Len(text) + 1
  ELSE CHOOSE k \in found : \A other \in found : k <= other

\* the field that starts at position pos, and the position where it ends: a
\* quoted field goes to its closing quote, and what follows the closing quote
\* up to the delimiter or the end of the line is taken as it is
CsvReadField(text, pos, delimiter) ==
  IF pos <= Len(text) /\ text[pos] = QUOTE
    THEN LET close == ClosingQuote(text, pos + 1)
             end == FirstOf(text, close + 1, {delimiter, CR, LF})
         IN [field |-> UndoubleQuotes(SubSeq(text, pos + 1, close - 1))
                         \o SubSeq(text, close + 1, end - 1),
             end |-> end]
    ELSE LET end == FirstOf(text, pos, {delimiter, CR, LF})
         IN [field |-> SubSeq(text, pos, end - 1), end |-> end]

\* the fields of the record from position pos on, and where the next record starts
RECURSIVE CsvReadRecord(_, _, _, _)
CsvReadRecord(text, pos, fields, delimiter) ==
  LET read == CsvReadField(text, pos, delimiter) IN
  IF read.end > Len(text)
    THEN [fields |-> Append(fields, read.field), next |-> read.end]
  ELSE IF text[read.end] = delimiter
    THEN CsvReadRecord(text, read.end + 1, Append(fields, read.field), delimiter)
  ELSE [fields |-> Append(fields, read.field),
        next |-> IF text[read.end] = CR /\ read.end < Len(text) /\ text[read.end + 1] = LF
                   THEN read.end + 2
                   ELSE read.end + 1]

\* the records from position pos on; an empty line is an empty record
RECURSIVE CsvReadRecords(_, _, _)
CsvReadRecords(text, pos, delimiter) ==
  IF pos > Len(text) THEN <<>>
  ELSE IF text[pos] \in {CR, LF}
    THEN <<<<>>>>
           \o CsvReadRecords(text,
                             IF text[pos] = CR /\ pos < Len(text) /\ text[pos + 1] = LF
                               THEN pos + 2 ELSE pos + 1,
                             delimiter)
  ELSE LET record == CsvReadRecord(text, pos, <<>>, delimiter) IN
       <<record.fields>> \o CsvReadRecords(text, record.next, delimiter)

\* csv.reader(file, delimiter): the rows read from the text
CsvReader(text, delimiter) == CsvReadRecords(text, 1, delimiter)

(***************************************************************************)
(* The 12-token line of the flat file.                                     *)
(***************************************************************************)
FEATURESTORES == <<"f","e","a","t","u","r","e","s","t","o","r","e","s">>
ENTITY_TYPES == <<"e","n","t","i","t","y","T","y","p","e","s">>
ENTITIES == <<"e","n","t","i","t","i","e","s">>
FEATURES == <<"f","e","a","t","u","r","e","s">>
FEATURE_DATA_TYPES == <<"f","e","a","t","u","r","e","D","a","t","a","T","y","p","e","s">>
FEATURE_VALUES == <<"f","e","a","t","u","r","e","V","a","l","u","e","s">>

\* the 12 tokens of one (featurestore, entity type, entity, feature) line
LineData(featurestore_id, entity_type_id, entity_id, feature_id, data_type, value) ==
  <<FEATURESTORES, featurestore_id, ENTITY_TYPES, entity_type_id, ENTITIES,
    entity_id, FEATURES, feature_id, FEATURE_DATA_TYPES, data_type,
    FEATURE_VALUES, value>>

(***************************************************************************)
(* data_exporter.py: the pure parts.                                       *)
(***************************************************************************)
\* name.split('/')[-1]
LastSegment(name) ==
  LET slashes == {i \in 1..Len(name) : name[i] = "/"} IN
  IF slashes = {} THEN name
  ELSE SubSeq(name, (CHOOSE i \in slashes : \A j \in slashes : j <= i) + 1, Len(name))

\* the pattern matches the whole of the string (re.fullmatch), for patterns
\* of literal characters, '.' and '*'
RECURSIVE ReFullMatch(_, _)
ReFullMatch(pattern, string) ==
  IF pattern = <<>> THEN string = <<>>
  ELSE IF Len(pattern) >= 2 /\ pattern[2] = "*"
    THEN \/ ReFullMatch(SubSeq(pattern, 3, Len(pattern)), string)
         \/ /\ string # <<>>
            /\ pattern[1] \in {".", Head(string)}
            /\ ReFullMatch(pattern, Tail(string))
  ELSE /\ string # <<>>
       /\ pattern[1] \in {".", Head(string)}
       /\ ReFullMatch(Tail(pattern), Tail(string))

\* re.match(pattern, string) is not None: the pattern matches at the start of
\* the string
RECURSIVE ReMatch(_, _)
ReMatch(pattern, string) ==
  IF pattern = <<>> THEN TRUE
  ELSE IF Len(pattern) >= 2 /\ pattern[2] = "*"
    THEN \/ ReMatch(SubSeq(pattern, 3, Len(pattern)), string)
         \/ /\ string # <<>>
            /\ pattern[1] \in {".", Head(string)}
            /\ ReMatch(pattern, Tail(string))
  ELSE /\ string # <<>>
       /\ pattern[1] \in {".", Head(string)}
       /\ ReMatch(Tail(pattern), Tail(string))

GS_SCHEME == <<"g","s",":","/","/">>

\* a run of characters other than c
NoneIs(string, c) == \A i \in 1..Len(string) : string[i] # c

\* mutant: [^/]* in place of [^/]+
GsOriginalPathEmptyBucket(string) ==
  \E i \in 0..Len(string) : \E j \in i..Len(string) : \E k \in j..Len(string) :
    /\ i = Len(GS_SCHEME)
    /\ SubSeq(string, 1, i) = GS_SCHEME
    /\ NoneIs(SubSeq(string, i + 1, j), "/")
    /\ k \in {j, j + 1}
    /\ k = j + 1 => string[k] = "/"
    /\ \E m \in k..Len(string) :
         /\ NoneIs(SubSeq(string, k + 1, m), "\n")
         /\ \/ m = Len(string)
            \/ m + 1 = Len(string) /\ string[m + 1] = "\n"

\* re.match(GS_ORIGINAL_PATH_FORMAT, string) is not None, for
\* '^gs://(?P<bucket_name>[^/]+)/?(?P<blob_name>.*)$': the scheme (1..i), one
\* or more characters other than '/' (i+1..j), an optional '/' (j+1..k), any
\* characters other than a line feed (k+1..m), then the end of the string or
\* a line feed that ends the string
ReMatchGsOriginalPathFormat(string) ==
  \E i \in 0..Len(string) : \E j \in i..Len(string) : \E k \in j..Len(string) :
    /\ i = Len(GS_SCHEME)
    /\ SubSeq(string, 1, i) = GS_SCHEME
    /\ j >= i + 1
    /\ NoneIs(SubSeq(string, i + 1, j), "/")
    /\ k \in {j, j + 1}
    /\ k = j + 1 => string[k] = "/"
    /\ \E m \in k..Len(string) :
         /\ NoneIs(SubSeq(string, k + 1, m), "\n")
         /\ \/ m = Len(string)
            \/ m + 1 = Len(string) /\ string[m + 1] = "\n"

ENTITY_TYPE_ == <<"e","n","t","i","t","y","_","t","y","p","e","_">>
FEATURE_TIMESTAMP ==
  <<"f","e","a","t","u","r","e","_","t","i","m","e","s","t","a","m","p">>
EXPORT_CSV == <<"0","0","0","0","0","0","0","0","0","0","0","0",".","c","s","v">>

\* _locate_folder_and_blob: the blob name
ExportBlobName(entity_type_id, uuid4) ==
  entity_type_id \o <<"_">> \o SubSeq(uuid4, 1, SuffixLen) \o <<"/">> \o EXPORT_CSV

\* _export_feature_metadata: the loop over the listed features
RECURSIVE ExportFeatureMetadata(_, _)
ExportFeatureMetadata(entity_type_data, features) ==
  IF features = <<>> THEN entity_type_data
  ELSE ExportFeatureMetadata(
         [entity_type_data EXCEPT !.features_metadata =
            Put(@, LastSegment(Head(features).name),
                [DefaultGet(@, LastSegment(Head(features).name), FeatureMetadata)
                   EXCEPT !.data_type = Head(features).value_type])],
         Tail(features))

\* entity_type_data.entities[entity_id].features[feature_name].value = feature_value
SetExportedValue(entity_type_data, entity_id, feature_name, feature_value) ==
  LET entity == DefaultGet(entity_type_data.entities, entity_id, Entity)
      feature == DefaultGet(entity.features, feature_name, Feature)
  IN [entity_type_data EXCEPT !.entities =
        Put(@, entity_id,
            [entity EXCEPT !.features =
               Put(@, feature_name, [feature EXCEPT !.value = feature_value])])]

\* _process_data_line: the loop over zip(features_in_order, feature_values)
RECURSIVE ProcessDataLineFrom(_, _, _, _, _)
ProcessDataLineFrom(entity_type_id, entity_type_data, entity_id, names, feature_values) ==
  IF names = <<>> \/ feature_values = <<>> THEN entity_type_data
  ELSE IF Head(names) = ENTITY_TYPE_ \o entity_type_id
    THEN ProcessDataLineFrom(entity_type_id, entity_type_data, Head(feature_values),
                             Tail(names), Tail(feature_values))
  ELSE IF Head(names) = FEATURE_TIMESTAMP
    THEN ProcessDataLineFrom(entity_type_id, entity_type_data, entity_id,
                             Tail(names), Tail(feature_values))
  ELSE ProcessDataLineFrom(entity_type_id,
                           SetExportedValue(entity_type_data, entity_id,
                                            Head(names), Head(feature_values)),
                           entity_id, Tail(names), Tail(feature_values))

ProcessDataLine(entity_type_id, entity_type_data, features_in_order, feature_values) ==
  ProcessDataLineFrom(entity_type_id, entity_type_data, <<>>, features_in_order,
                      feature_values)

RECURSIVE ProcessDataLines(_, _, _, _)
ProcessDataLines(entity_type_id, entity_type_data, features_in_order, rows) ==
  IF rows = <<>> THEN entity_type_data
  ELSE ProcessDataLines(entity_type_id,
                        ProcessDataLine(entity_type_id, entity_type_data,
                                        features_in_order, Head(rows)),
                        features_in_order, Tail(rows))

\* _process_entities_and_features: csv.reader over the staged text; the first
\* row is the header
ProcessEntitiesAndFeatures(entity_type_id, entity_type_data, csv_text) ==
  LET rows == CsvReader(csv_text, ",") IN
  IF rows = <<>> THEN entity_type_data
  ELSE ProcessDataLines(entity_type_id, entity_type_data, Head(rows), Tail(rows))

\* _write_to_file: the rows handed to writerow and the model left behind;
\* features_metadata[feature_id] of a defaultdict inserts a missing entry
RECURSIVE WriteFeatures(_, _, _, _, _)
WriteFeatures(featurestore_id, entity_type_id, entity_id, entity_type, features) ==
  IF features = <<>> THEN [rows |-> <<>>, entity_type |-> entity_type]
  ELSE
    LET feature_id == Head(features).key
        metadata == DefaultGet(entity_type.features_metadata, feature_id, FeatureMetadata)
        touched == [entity_type EXCEPT !.features_metadata = Put(@, feature_id, metadata)]
        rest == WriteFeatures(featurestore_id, entity_type_id, entity_id, touched,
                              Tail(features))
    IN [rows |-> <<LineData(featurestore_id, entity_type_id, entity_id, feature_id,
                            ValueTypeName[metadata.data_type], Head(features).val.value)>>
                   \o rest.rows,
        entity_type |-> rest.entity_type]

\* mutant: the rows of the first entity are written last
RECURSIVE WriteEntitiesLastFirst(_, _, _, _)
WriteEntitiesLastFirst(featurestore_id, entity_type_id, entity_type, entities) ==
  IF entities = <<>> THEN [rows |-> <<>>, entity_type |-> entity_type]
  ELSE
    LET first == WriteFeatures(featurestore_id, entity_type_id, Head(entities).key,
                               entity_type, Head(entities).val.features)
        rest == WriteEntitiesLastFirst(featurestore_id, entity_type_id,
                                       first.entity_type, Tail(entities))
    IN [rows |-> rest.rows \o first.rows, entity_type |-> rest.entity_type]

RECURSIVE WriteEntities(_, _, _, _)
WriteEntities(featurestore_id, entity_type_id, entity_type, entities) ==
  IF entities = <<>> THEN [rows |-> <<>>, entity_type |-> entity_type]
  ELSE
    LET first == WriteFeatures(featurestore_id, entity_type_id, Head(entities).key,
                               entity_type, Head(entities).val.features)
        rest == WriteEntities(featurestore_id, entity_type_id, first.entity_type,
                              Tail(entities))
    IN [rows |-> first.rows \o rest.rows, entity_type |-> rest.entity_type]

RECURSIVE WriteEntityTypes(_, _)
WriteEntityTypes(featurestore_id, entity_types) ==
  IF entity_types = <<>> THEN [rows |-> <<>>, entity_types |-> <<>>]
  ELSE
    LET first == WriteEntities(featurestore_id, Head(entity_types).key,
                               Head(entity_types).val, Head(entity_types).val.entities)
        rest == WriteEntityTypes(featurestore_id, Tail(entity_types))
    IN [rows |-> first.rows \o rest.rows,
        entity_types |-> <<[key |-> Head(entity_types).key, val |-> first.entity_type]>>
                           \o rest.entity_types]

RECURSIVE WriteFeaturestores(_)
WriteFeaturestores(fss) ==
  IF fss = <<>> THEN [rows |-> <<>>, featurestores_data |-> <<>>]
  ELSE
    LET first == WriteEntityTypes(Head(fss).key, Head(fss).val.entity_types)
        rest == WriteFeaturestores(Tail(fss))
    IN [rows |-> first.rows \o rest.rows,
        featurestores_data |->
          <<[key |-> Head(fss).key,
             val |-> [Head(fss).val EXCEPT !.entity_types = first.entity_types]]>>
            \o rest.featurestores_data]

\* the text _write_to_file leaves in the export file
WriteToFileText(fss) == CsvWriteRows(WriteFeaturestores(fss).rows, "/")

(***************************************************************************)
(* The rows of the flat file.                                              *)
(***************************************************************************)
INT64_TOKEN == <<"i","n","t","6","4">>

\* data-type tokens: two scalar types, blank, unrecognized, array-typed
DataTypeTokens ==
  {INT64_TOKEN, <<"B","o","o","l">>, <<>>,
   <<"i","n","t","6","3">>, <<"i","n","t","6","4","_","a","r","r","a","y">>}

\* the name of the first member of Feature.ValueType, in lower case
UNSPECIFIED_TOKEN ==
  <<"v","a","l","u","e","_","t","y","p","e","_",
    "u","n","s","p","e","c","i","f","i","e","d">>

\* rows of one entity type: every data-type token for two features, two values
\* for the first of them, a second entity, and the unspecified type by name
TypeRows ==
  {LineData(<<"f">>, <<"t">>, <<"e">>, <<"x">>, dt, va) :
     dt \in DataTypeTokens, va \in {<<"1">>, <<"2">>}}
  \cup {LineData(<<"f">>, <<"t">>, <<"e">>, <<"y">>, dt, <<"3">>) : dt \in DataTypeTokens}
  \cup {LineData(<<"f">>, <<"t">>, <<"d">>, <<"x">>, <<>>, <<"4">>)}
  \cup {LineData(<<"f">>, <<"t">>, <<"e">>, <<"y">>, UNSPECIFIED_TOKEN, <<"3">>)}

\* rows of a second featurestore, and of one whose id has the form of a mapped id
MapRows ==
  {LineData(<<"g">>, <<"t">>, <<"e">>, <<"x">>, dt, <<"1">>) :
     dt \in {INT64_TOKEN, <<"i","n","t","6","3">>}}
  \cup {LineData(<<"f","_","d","3","d","7","5">>, <<"t">>, <<"e">>, <<"x">>,
                 INT64_TOKEN, <<"1">>)}

WellFormedRows == TypeRows \cup MapRows

\* rows csv.reader yields that do not have 12 tokens
MalformedRows ==
  {<<<<"b","a","d"," ","l","i","n","e">>>>,
   SubSeq(LineData(<<"f">>, <<"t">>, <<"e">>, <<"x">>, INT64_TOKEN, <<"1">>), 1, 11),
   Append(LineData(<<"f">>, <<"t">>, <<"e">>, <<"x">>, INT64_TOKEN, <<"1">>), <<"9">>)}

ParseRows == WellFormedRows \cup MalformedRows

\* the rows of the files given to DataImporter.execute: two entity types of one
\* featurestore, a second featurestore, a second entity with another feature,
\* a line of an unrecognized type and a malformed line
ImportRows ==
  {LineData(<<"f">>, <<"t">>, <<"e">>, <<"x">>, INT64_TOKEN, <<"1">>),
   LineData(<<"f">>, <<"t">>, <<"e">>, <<"x">>, <<"i","n","t","6","3">>, <<"1">>),
   LineData(<<"f">>, <<"t">>, <<"d">>, <<"y">>, <<"B","o","o","l">>, <<"2">>),
   LineData(<<"f">>, <<"s">>, <<"e">>, <<"x">>, INT64_TOKEN, <<"1">>),
   LineData(<<"g">>, <<"t">>, <<"e">>, <<"x">>, INT64_TOKEN, <<"1">>),
   <<<<"b","a","d"," ","l","i","n","e">>>>}

ImportFiles == UNION {[1..n -> ImportRows] : n \in 0..MaxFileLines}

\* the first five characters of str(uuid4())
Uuid4Prefixes == {<<"d","3","d","7","5">>, <<"0","a","f","f","e">>}

(***************************************************************************)
(* State.                                                                  *)
(***************************************************************************)
VARIABLES
  featurestores,        \* DataImporter: the Data Model being parsed / uploaded
  featurestore_id_map,  \* original featurestore id -> mapped id
  warnings,             \* number of logging.warning calls
  generated,            \* number of mapped names generated by _map_featurestore
  lineno,               \* rows of the file read so far
  row,                  \* the row read last
  wellformed,           \* the parse of the 12-token rows read so far alone
  originals,            \* featurestore ids named by the 12-token rows read so far
  import_file,          \* the rows of the file at import_file_path
  pc,                   \* where execute (of the importer or the exporter) stands
  run,                  \* the run of the import tool (1, 2, ...)
  client_created,       \* a FeaturestoreServiceClient was constructed
  calls,                \* the featurestore-service calls of this run, in order
  schema_k,             \* the next call of _create_schema
  step_k,               \* the (featurestore, entity type) _upload_data is at
  steps,                \* the upload steps entered in this run
  blob,                 \* the staging object of the current upload step
  bucket,               \* the staging objects that exist: name -> CSV rows
  pending,              \* the exception raised inside the try block
  error,                \* the exception execute raised
  ingested,             \* the CSV files the ingestion jobs of this run loaded
  remote_created,       \* create_featurestore requests of all runs
  featurestores_data,   \* DataExporter: the Data Model being exported
  featurestore_id_regex,
  entity_type_id_regex,
  featurestore_objects, \* what list_featurestores returned
  entity_type_objects,  \* what list_entity_types returned for the current featurestore
  fs_i,                 \* the featurestore object the loop of _export_featurestores is at
  et_j,                 \* the entity type object the loop of _export_featurestore_data is at
  csv_file,             \* the StringIO buffer of the current entity type
  export_file,          \* the text of the file at export_file_path
  gcs_path,             \* the staging location the tool was constructed with
  target_qps,           \* FrameworkRunner: _target_qps
  cluster_size,         \* _cluster_size
  keep_cluster,         \* _keep_cluster
  existing_cluster_name,\* _existing_cluster_name
  dataset_id,           \* _dataset_id
  cluster_name,         \* the cluster name execute has obtained
  job_k,                \* the job _create_jobs or the loop of execute is at
  current_wait,         \* current_wait of the wait loop that is running
  sleeps                \* the sleeps of the wait loop that is running

parseVars ==
  <<featurestores, featurestore_id_map, warnings, generated, lineno, row,
    wellformed, originals>>

importVars ==
  <<import_file, pc, run, client_created, calls, schema_k, step_k, steps, blob,
    bucket, pending, error, ingested, remote_created>>

exportVars ==
  <<featurestores_data, featurestore_id_regex, entity_type_id_regex,
    featurestore_objects, entity_type_objects, fs_i, et_j, csv_file, export_file>>

configVars == <<gcs_path>>

runnerVars ==
  <<target_qps, cluster_size, keep_cluster, existing_cluster_name, dataset_id,
    cluster_name, job_k, current_wait, sleeps>>

vars == <<parseVars, importVars, exportVars, configVars, runnerVars>>

NoException == "none"
NoBlob == [filename |-> <<>>]

ParseState ==
  [featurestores |-> featurestores, featurestore_id_map |-> featurestore_id_map,
   warnings |-> warnings, generated |-> generated]

InitParseVars ==
  /\ featurestores = <<>>
  /\ featurestore_id_map = <<>>
  /\ warnings = 0
  /\ generated = 0
  /\ lineno = 0
  /\ row = <<>>
  /\ wellformed = EmptyParse
  /\ originals = {}

InitRunVars ==
  /\ run = 1
  /\ client_created = FALSE
  /\ calls = <<>>
  /\ schema_k = 1
  /\ step_k = 1
  /\ steps = <<>>
  /\ blob = NoBlob
  /\ bucket = <<>>
  /\ pending = NoException
  /\ error = NoException
  /\ ingested = <<>>
  /\ remote_created = <<>>

InitImportVars ==
  /\ pc = "parse"
  /\ InitRunVars

NoFile == "no file"

\* the staging location of the tests
GS_SCRATCH_BUCKET == <<"g","s",":","/","/","b","/">>

InitConfigVars == gcs_path = GS_SCRATCH_BUCKET

\* no FrameworkRunner
InitRunnerVars ==
  /\ target_qps = 0
  /\ cluster_size = 0
  /\ keep_cluster = FALSE
  /\ existing_cluster_name = <<>>
  /\ dataset_id = <<>>
  /\ cluster_name = <<>>
  /\ job_k = 1
  /\ current_wait = 0
  /\ sleeps = 0

InitExportVars ==
  /\ featurestores_data = <<>>
  /\ featurestore_id_regex = <<>>
  /\ entity_type_id_regex = <<>>
  /\ featurestore_objects = <<>>
  /\ entity_type_objects = <<>>
  /\ fs_i = 1
  /\ et_j = 1
  /\ csv_file = <<>>
  /\ export_file = NoFile

\* the uuid4 draws the loop body can make for a row: _map_featurestore calls
\* uuid4() only for a 12-token row whose featurestore id is not in the map
Uuid4Draws(next_row) ==
  IF Len(next_row) = 12 /\ ~Has(featurestore_id_map, next_row[2])
    THEN Uuid4Prefixes
    ELSE {CHOOSE uuid4 \in Uuid4Prefixes : TRUE}

\* _parse_schema_and_data: the loop body, for the next row of the file
ReadRow(next_row, uuid4) ==
  LET st == ParseRow(ParseState, next_row, uuid4) IN
  /\ featurestores' = st.featurestores
  /\ featurestore_id_map' = st.featurestore_id_map
  /\ warnings' = st.warnings
  /\ generated' = st.generated
  /\ lineno' = lineno + 1
  /\ row' = next_row
  /\ wellformed' = IF Len(next_row) = 12
                     THEN StoreValues(wellformed, ParseValues(next_row), uuid4)
                     ELSE wellformed
  /\ originals' = IF Len(next_row) = 12 THEN originals \cup {next_row[2]} ELSE originals

(***************************************************************************)
(* SpecParse: _parse_schema_and_data over the rows of any file.            *)
(***************************************************************************)
InitParse ==
  /\ InitParseVars
  /\ InitRunnerVars
  /\ InitImportVars
  /\ InitExportVars
  /\ InitConfigVars
  /\ import_file = <<>>

ParseSchemaAndData ==
  /\ lineno < MaxLines
  /\ \E next_row \in ParseRows :
       \E uuid4 \in Uuid4Draws(next_row) : ReadRow(next_row, uuid4)
  /\ UNCHANGED importVars
  /\ UNCHANGED exportVars
  /\ UNCHANGED configVars
  /\ UNCHANGED runnerVars

NextParse == ParseSchemaAndData

SpecParse == InitParse /\ [][NextParse]_vars

(***************************************************************************)
(* SpecImport: DataImporter.execute over one file.                         *)
(***************************************************************************)
InitImport ==
  /\ InitParseVars
  /\ InitRunnerVars
  /\ InitImportVars
  /\ InitExportVars
  /\ InitConfigVars
  /\ import_file \in ImportFiles

\* execute: _parse_schema_and_data reads the next row of the file
ExecuteReadRow ==
  /\ pc = "parse"
  /\ lineno < Len(import_file)
  /\ \E uuid4 \in Uuid4Draws(import_file[lineno + 1]) :
       ReadRow(import_file[lineno + 1], uuid4)
  /\ UNCHANGED importVars
  /\ UNCHANGED exportVars
  /\ UNCHANGED configVars
  /\ UNCHANGED runnerVars

\* where execute goes once the schema calls from call k on are made
AfterSchema(fss, k) ==
  IF k <= Len(CreateSchema(fss)) THEN "create_schema"
  ELSE IF UploadData(fss) # <<>> THEN "create_blob_object"
  ELSE "returned"

\* execute: the file is read; `if featurestores:`
ExecuteParsed ==
  /\ pc = "parse"
  /\ lineno = Len(import_file)
  /\ IF featurestores # <<>>
       THEN /\ client_created' = TRUE
            /\ pc' = AfterSchema(featurestores, 1)
       ELSE /\ client_created' = client_created
            /\ pc' = "returned"
  /\ UNCHANGED <<parseVars, import_file, run, calls, schema_k, step_k, steps, blob,
                 bucket, pending, error, ingested, remote_created>>
  /\ UNCHANGED exportVars
  /\ UNCHANGED configVars
  /\ UNCHANGED runnerVars

\* mutant: the call is not awaited, its failure does not stop _create_schema
SchemaCallNotAwaited(op, raises) ==
  /\ pc = "create_schema"
  /\ CreateSchema(featurestores)[schema_k].op = op
  /\ calls' = Append(calls, CreateSchema(featurestores)[schema_k])
  /\ pc' = AfterSchema(featurestores, schema_k + 1)
  /\ error' = IF raises THEN op ELSE error
  /\ schema_k' = schema_k + 1
  /\ UNCHANGED configVars
  /\ UNCHANGED runnerVars

\* one call of _create_schema, awaited with .result(): it returns or raises
SchemaCall(op, raises) ==
  /\ pc = "create_schema"
  /\ CreateSchema(featurestores)[schema_k].op = op
  /\ calls' = Append(calls, CreateSchema(featurestores)[schema_k])
  /\ IF raises
       THEN /\ pc' = "raised"
            /\ error' = op
            /\ schema_k' = schema_k
       ELSE /\ pc' = AfterSchema(featurestores, schema_k + 1)
            /\ error' = error
            /\ schema_k' = schema_k + 1
  /\ UNCHANGED configVars
  /\ UNCHANGED runnerVars

CreateFeaturestore ==
  /\ \E raises \in BOOLEAN : SchemaCall("create_featurestore", raises)
  /\ remote_created' =
       Append(remote_created,
              [run |-> run, featurestore_id |-> CreateSchema(featurestores)[schema_k].featurestore_id])
  /\ UNCHANGED <<parseVars, import_file, run, client_created, step_k, steps, blob,
                 bucket, pending, ingested>>
  /\ UNCHANGED exportVars

CreateEntityType ==
  /\ \E raises \in BOOLEAN : SchemaCall("create_entity_type", raises)
  /\ UNCHANGED <<parseVars, import_file, run, client_created, step_k, steps, blob,
                 bucket, pending, ingested, remote_created>>
  /\ UNCHANGED exportVars

CreateFeatures ==
  /\ \E raises \in BOOLEAN : SchemaCall("batch_create_features", raises)
  /\ UNCHANGED <<parseVars, import_file, run, client_created, step_k, steps, blob,
                 bucket, pending, ingested, remote_created>>
  /\ UNCHANGED exportVars

\* the entity type of the current upload step
StepEntityType ==
  Get(Get(featurestores, UploadData(featurestores)[step_k].featurestore_id).entity_types,
      UploadData(featurestores)[step_k].entity_type_id)

\* _upload_data: _create_blob_object, then the try block is entered
CreateBlobObject ==
  /\ pc = "create_blob_object"
  /\ \E uuid4 \in Uuid4Prefixes :
       blob' = [filename |->
                  BlobFilename(UploadData(featurestores)[step_k].entity_type_id, uuid4)]
  /\ steps' = Append(steps,
                     [featurestore_id |-> UploadData(featurestores)[step_k].featurestore_id,
                      entity_type_id |-> UploadData(featurestores)[step_k].entity_type_id,
                      upload |-> "none", ingestion |-> "none", deletes |-> 0,
                      left |-> FALSE])
  /\ pending' = NoException
  /\ pc' = "upload_data_file"
  /\ UNCHANGED <<parseVars, import_file, run, client_created, calls, schema_k, step_k,
                 bucket, error, ingested, remote_created>>
  /\ UNCHANGED exportVars
  /\ UNCHANGED configVars
  /\ UNCHANGED runnerVars

\* _upload_data_file: the CSV is written, then blob.upload_from_file returns or raises
UploadDataFile ==
  /\ pc = "upload_data_file"
  /\ featurestores' =
       [featurestores EXCEPT
          ![IndexOf(featurestores, UploadData(featurestores)[step_k].featurestore_id)]
             .val.entity_types =
               Put(@, UploadData(featurestores)[step_k].entity_type_id,
                   UploadDataFileEntityType(StepEntityType))]
  /\ \E uuid4 \in Uuid4Prefixes, raises \in BOOLEAN :
       IF raises
         THEN /\ pending' = "upload_from_file"
              /\ pc' = "delete_blob"
              /\ bucket' = bucket
              /\ steps' = [steps EXCEPT ![Len(steps)].upload = "raised"]
         ELSE /\ pending' = pending
              /\ pc' = "run_data_ingestion_job"
              /\ bucket' = Put(bucket, blob.filename,
                               UploadDataFileCsv(StepEntityType, uuid4))
              /\ steps' = [steps EXCEPT ![Len(steps)].upload = "returned"]
  /\ UNCHANGED <<featurestore_id_map, warnings, generated, lineno, row, wellformed,
                 originals, import_file, run, client_created, calls, schema_k, step_k,
                 blob, error, ingested, remote_created>>
  /\ UNCHANGED exportVars
  /\ UNCHANGED configVars
  /\ UNCHANGED runnerVars

\* _run_data_ingestion_job: import_feature_values(...).result() returns or raises
RunDataIngestionJob ==
  /\ pc = "run_data_ingestion_job"
  /\ calls' = Append(calls,
                     [op |-> "import_feature_values",
                      featurestore_id |-> UploadData(featurestores)[step_k].featurestore_id,
                      entity_type_id |-> UploadData(featurestores)[step_k].entity_type_id,
                      arg |-> [uris |-> <<blob.filename>>,
                               entity_id_field |-> Get(bucket, blob.filename)[1][1],
                               feature_specs |-> Keys(StepEntityType.features_metadata)]])
  /\ \E raises \in BOOLEAN :
       IF raises
         THEN /\ pending' = "import_feature_values"
              /\ ingested' = ingested
              /\ steps' = [steps EXCEPT ![Len(steps)].ingestion = "raised"]
         ELSE /\ pending' = pending
              /\ ingested' = Append(ingested,
                                    [featurestore_id |->
                                       UploadData(featurestores)[step_k].featurestore_id,
                                     entity_type_id |->
                                       UploadData(featurestores)[step_k].entity_type_id,
                                     csv |-> Get(bucket, blob.filename)])
              /\ steps' = [steps EXCEPT ![Len(steps)].ingestion = "returned"]
  /\ pc' = "delete_blob"
  /\ UNCHANGED <<parseVars, import_file, run, client_created, schema_k, step_k, blob,
                 bucket, error, remote_created>>
  /\ UNCHANGED exportVars
  /\ UNCHANGED configVars
  /\ UNCHANGED runnerVars

\* mutant: blob.delete() follows the try block instead of being its finally clause
DeleteBlobAfterTry ==
  /\ pc = "delete_blob"
  /\ IF pending # NoException
       THEN /\ bucket' = bucket
            /\ steps' = [steps EXCEPT ![Len(steps)].left = TRUE]
            /\ pc' = "raised" /\ error' = pending /\ step_k' = step_k
       ELSE /\ bucket' = Remove(bucket, blob.filename)
            /\ steps' = [steps EXCEPT ![Len(steps)].deletes = @ + 1,
                                      ![Len(steps)].left = TRUE]
            /\ IF step_k < Len(UploadData(featurestores))
                 THEN pc' = "create_blob_object" /\ error' = error /\ step_k' = step_k + 1
                 ELSE pc' = "returned" /\ error' = error /\ step_k' = step_k
  /\ blob' = NoBlob
  /\ UNCHANGED <<parseVars, import_file, run, client_created, calls, schema_k,
                 pending, ingested, remote_created>>
  /\ UNCHANGED exportVars
  /\ UNCHANGED configVars
  /\ UNCHANGED runnerVars

\* the finally clause of _upload_data: blob.delete(), which removes the object
\* and returns, or finds no object and returns or raises; then the pending
\* exception, if any, goes on, or the loop goes to the next entity type
DeleteBlob ==
  /\ pc = "delete_blob"
  /\ bucket' = Remove(bucket, blob.filename)
  /\ steps' = [steps EXCEPT ![Len(steps)].deletes = @ + 1, ![Len(steps)].left = TRUE]
  /\ \E not_found \in {FALSE, ~Has(bucket, blob.filename)} :
       IF not_found
         THEN pc' = "raised" /\ error' = "delete" /\ step_k' = step_k
       ELSE IF pending # NoException
         THEN pc' = "raised" /\ error' = pending /\ step_k' = step_k
       ELSE IF step_k < Len(UploadData(featurestores))
         THEN pc' = "create_blob_object" /\ error' = error /\ step_k' = step_k + 1
       ELSE pc' = "returned" /\ error' = error /\ step_k' = step_k
  /\ blob' = NoBlob
  /\ UNCHANGED <<parseVars, import_file, run, client_created, calls, schema_k,
                 pending, ingested, remote_created>>
  /\ UNCHANGED exportVars
  /\ UNCHANGED configVars
  /\ UNCHANGED runnerVars

NextImport ==
  \/ ExecuteReadRow
  \/ ExecuteParsed
  \/ CreateFeaturestore
  \/ CreateEntityType
  \/ CreateFeatures
  \/ CreateBlobObject
  \/ UploadDataFile
  \/ RunDataIngestionJob
  \/ DeleteBlob

SpecImport == InitImport /\ [][NextImport]_vars

(***************************************************************************)
(* SpecReimport: the import tool run again over the same file.             *)
(***************************************************************************)
\* a new process: nothing is kept but the file and the remote featurestores
RunAgain ==
  /\ pc \in {"returned", "raised"}
  /\ run < MaxRuns
  /\ run' = run + 1
  /\ featurestores' = <<>>
  /\ featurestore_id_map' = <<>>
  /\ warnings' = 0
  /\ generated' = 0
  /\ lineno' = 0
  /\ row' = <<>>
  /\ wellformed' = EmptyParse
  /\ originals' = {}
  /\ pc' = "parse"
  /\ client_created' = FALSE
  /\ calls' = <<>>
  /\ schema_k' = 1
  /\ step_k' = 1
  /\ steps' = <<>>
  /\ blob' = NoBlob
  /\ pending' = NoException
  /\ error' = NoException
  /\ ingested' = <<>>
  /\ UNCHANGED <<import_file, bucket, remote_created>>
  /\ UNCHANGED exportVars
  /\ UNCHANGED configVars
  /\ UNCHANGED runnerVars

NextReimport == NextImport \/ RunAgain

SpecReimport == InitImport /\ [][NextReimport]_vars

(***************************************************************************)
(* SpecExport: DataExporter.execute.  The featurestore service answers a   *)
(* list call with any of the lists below and an export job leaves any of   *)
(* the CSV texts below.                                                    *)
(***************************************************************************)
COMMON_LOCATION_PATH == <<"p","/","r">>
FEATURESTORES_SEGMENT == <<"/","f","e","a","t","u","r","e","s","t","o","r","e","s","/">>
ENTITY_TYPES_SEGMENT == <<"/","e","n","t","i","t","y","T","y","p","e","s","/">>
FEATURES_SEGMENT == <<"/","f","e","a","t","u","r","e","s","/">>

FeaturestoreName(featurestore_id) ==
  COMMON_LOCATION_PATH \o FEATURESTORES_SEGMENT \o featurestore_id

EntityTypeName(featurestore_name, entity_type_id) ==
  featurestore_name \o ENTITY_TYPES_SEGMENT \o entity_type_id

FeatureName(entity_type_name, feature_id) ==
  entity_type_name \o FEATURES_SEGMENT \o feature_id

DOG == <<"d","o","g">>
CAT == <<"c","a","t">>

\* the regexes of the command line: the default, the regex of the tests, a
\* proper prefix of an id and a proper suffix of an id
IdRegexes == {<<".","*">>, <<"d",".","*">>, <<"d","o">>, <<"o","g">>}

ListFeaturestores ==
  {<<>>, <<[name |-> FeaturestoreName(DOG)], [name |-> FeaturestoreName(CAT)]>>}

ListEntityTypes(parent) ==
  {<<>>, <<[name |-> EntityTypeName(parent, DOG)], [name |-> EntityTypeName(parent, CAT)]>>}

ListFeatures(parent) ==
  {<<[name |-> FeatureName(parent, <<"x">>), value_type |-> "INT64"]>>,
   <<[name |-> FeatureName(parent, <<"x">>), value_type |-> "INT64"],
     [name |-> FeatureName(parent, <<"y">>), value_type |-> "STRING_ARRAY"]>>}

\* the CSV an export job leaves: the header of the tests (timestamp, entity id,
\* feature), a header without timestamp, a value with a comma
ExportedCsv(entity_type_id) ==
  {CsvWriteRows(<<<<FEATURE_TIMESTAMP, ENTITY_TYPE_ \o entity_type_id, <<"x">>>>,
                  <<<<"T">>, <<"e">>, <<"1">>>>>>, ","),
   CsvWriteRows(<<<<ENTITY_TYPE_ \o entity_type_id, <<"x">>, <<"z">>>>,
                  <<<<"e">>, <<"1">>, <<"a", ",", "b">>>>,
                  <<<<"d">>, <<"2">>, <<>>>>>>, ",")}

InitExport ==
  /\ InitParseVars
  /\ InitRunnerVars
  /\ InitRunVars
  /\ InitConfigVars
  /\ import_file = <<>>
  /\ featurestores_data = <<>>
  /\ featurestore_id_regex \in IdRegexes
  /\ entity_type_id_regex \in IdRegexes
  /\ featurestore_objects = <<>>
  /\ entity_type_objects = <<>>
  /\ fs_i = 1
  /\ et_j = 1
  /\ csv_file = <<>>
  /\ export_file = NoFile
  /\ pc = "export_featurestores"

\* mutant: the file is written once the entity types of one featurestore are done
LoopAtOneFeaturestore(fs_objects, i, et_objects, j) ==
  IF j <= Len(et_objects)
    THEN [pc |-> "export_entity_type_data", fs_i |-> i, et_j |-> j,
          entity_type_objects |-> et_objects]
  ELSE [pc |-> "write_to_file", fs_i |-> i + 1, et_j |-> 1, entity_type_objects |-> <<>>]

\* where the loops of _export_featurestores and _export_featurestore_data go
\* when entity type j of featurestore i is next
LoopAt(fs_objects, i, et_objects, j) ==
  IF j <= Len(et_objects)
    THEN [pc |-> "export_entity_type_data", fs_i |-> i, et_j |-> j,
          entity_type_objects |-> et_objects]
  ELSE IF i < Len(fs_objects)
    THEN [pc |-> "export_featurestore_data", fs_i |-> i + 1, et_j |-> 1,
          entity_type_objects |-> <<>>]
  ELSE [pc |-> "write_to_file", fs_i |-> i + 1, et_j |-> 1, entity_type_objects |-> <<>>]

GoTo(at) ==
  /\ pc' = at.pc
  /\ fs_i' = at.fs_i
  /\ et_j' = at.et_j
  /\ entity_type_objects' = at.entity_type_objects

Raise(exception) ==
  /\ pc' = "raised"
  /\ error' = exception
  /\ UNCHANGED <<fs_i, et_j, entity_type_objects>>

CurrentFeaturestoreId == LastSegment(featurestore_objects[fs_i].name)
CurrentEntityTypeId == LastSegment(entity_type_objects[et_j].name)
CurrentEntityType ==
  Get(Get(featurestores_data, CurrentFeaturestoreId).entity_types, CurrentEntityTypeId)

ExporterCall(op, name) ==
  [op |-> op, featurestore_id |-> <<>>, entity_type_id |-> <<>>, arg |-> name]

\* _export_featurestores: the client is made and list_featurestores is called
ExportFeaturestores ==
  /\ pc = "export_featurestores"
  /\ client_created' = TRUE
  /\ calls' = Append(calls, ExporterCall("list_featurestores", COMMON_LOCATION_PATH))
  /\ \E raises \in BOOLEAN :
       IF raises
         THEN /\ Raise("list_featurestores")
              /\ featurestore_objects' = featurestore_objects
         ELSE \E objects \in ListFeaturestores :
                /\ featurestore_objects' = objects
                /\ IF objects = <<>>
                     THEN GoTo(LoopAt(objects, 1, <<>>, 1))
                     ELSE GoTo([pc |-> "export_featurestore_data", fs_i |-> 1, et_j |-> 1,
                                entity_type_objects |-> <<>>])
                /\ error' = error
  /\ UNCHANGED <<parseVars, import_file, run, schema_k, step_k, steps, blob, bucket,
                 pending, ingested, remote_created, featurestores_data,
                 featurestore_id_regex, entity_type_id_regex, csv_file, export_file>>
  /\ UNCHANGED configVars
  /\ UNCHANGED runnerVars

\* the loop body of _export_featurestores: the filter, then
\* _export_featurestore_data up to the list_entity_types call
ExportFeaturestoreData ==
  /\ pc = "export_featurestore_data"
  /\ IF ~ReMatch(featurestore_id_regex, CurrentFeaturestoreId)
       THEN /\ GoTo(LoopAt(featurestore_objects, fs_i, <<>>, 1))
            /\ UNCHANGED <<featurestores_data, calls, error>>
       ELSE /\ featurestores_data' =
                 Put(featurestores_data, CurrentFeaturestoreId,
                     DefaultGet(featurestores_data, CurrentFeaturestoreId, Featurestore))
            /\ calls' = Append(calls, ExporterCall("list_entity_types",
                                                   featurestore_objects[fs_i].name))
            /\ \E raises \in BOOLEAN :
                 IF raises
                   THEN Raise("list_entity_types")
                   ELSE \E objects \in ListEntityTypes(featurestore_objects[fs_i].name) :
                          /\ GoTo(LoopAt(featurestore_objects, fs_i, objects, 1))
                          /\ error' = error
  /\ UNCHANGED <<parseVars, import_file, run, client_created, schema_k, step_k, steps,
                 blob, bucket, pending, ingested, remote_created, featurestore_id_regex,
                 entity_type_id_regex, featurestore_objects, csv_file, export_file>>
  /\ UNCHANGED configVars
  /\ UNCHANGED runnerVars

\* the loop body of _export_featurestore_data: the filter, then
\* _export_entity_type_data and _export_feature_metadata
ExportEntityTypeData ==
  /\ pc = "export_entity_type_data"
  /\ IF ~ReMatch(entity_type_id_regex, CurrentEntityTypeId)
       THEN /\ GoTo(LoopAt(featurestore_objects, fs_i, entity_type_objects, et_j + 1))
            /\ UNCHANGED <<featurestores_data, calls, error>>
       ELSE LET featurestore_data == Get(featurestores_data, CurrentFeaturestoreId)
                entity_type_data ==
                  DefaultGet(featurestore_data.entity_types, CurrentEntityTypeId, EntityType)
            IN
            /\ calls' = Append(calls, ExporterCall("list_features",
                                                   entity_type_objects[et_j].name))
            /\ \E raises \in BOOLEAN :
                 IF raises
                   THEN /\ Raise("list_features")
                        /\ featurestores_data' =
                             Put(featurestores_data, CurrentFeaturestoreId,
                                 [featurestore_data EXCEPT !.entity_types =
                                    Put(@, CurrentEntityTypeId, entity_type_data)])
                   ELSE \E features \in ListFeatures(entity_type_objects[et_j].name) :
                          /\ featurestores_data' =
                               Put(featurestores_data, CurrentFeaturestoreId,
                                   [featurestore_data EXCEPT !.entity_types =
                                      Put(@, CurrentEntityTypeId,
                                          ExportFeatureMetadata(entity_type_data, features))])
                          /\ pc' = "locate_folder_and_blob"
                          /\ UNCHANGED <<fs_i, et_j, entity_type_objects, error>>
  /\ UNCHANGED <<parseVars, import_file, run, client_created, schema_k, step_k, steps,
                 blob, bucket, pending, ingested, remote_created, featurestore_id_regex,
                 entity_type_id_regex, featurestore_objects, csv_file, export_file>>
  /\ UNCHANGED configVars
  /\ UNCHANGED runnerVars

\* _export_entity_type_entity_data: _locate_folder_and_blob, then the try
\* block is entered
LocateFolderAndBlob ==
  /\ pc = "locate_folder_and_blob"
  /\ \E uuid4 \in Uuid4Prefixes :
       blob' = [filename |-> ExportBlobName(CurrentEntityTypeId, uuid4)]
  /\ steps' = Append(steps,
                     [featurestore_id |-> CurrentFeaturestoreId,
                      entity_type_id |-> CurrentEntityTypeId,
                      export |-> "none", download |-> "none", decode |-> "none",
                      deletes |-> 0, left |-> FALSE])
  /\ pending' = NoException
  /\ pc' = "export_feature_values"
  /\ UNCHANGED <<parseVars, import_file, run, client_created, calls, schema_k, step_k,
                 bucket, error, ingested, remote_created, exportVars>>
  /\ UNCHANGED configVars
  /\ UNCHANGED runnerVars

\* _export_entity_and_features: export_feature_values(...).result() returns,
\* and the CSV is staged, or it raises, and the CSV is staged or not
ExportFeatureValues ==
  /\ pc = "export_feature_values"
  /\ calls' = Append(calls, [ExporterCall("export_feature_values",
                                          entity_type_objects[et_j].name)
                               EXCEPT !.featurestore_id = CurrentFeaturestoreId,
                                      !.entity_type_id = CurrentEntityTypeId])
  /\ \E raises \in BOOLEAN, staged \in BOOLEAN, csv \in ExportedCsv(CurrentEntityTypeId) :
       /\ raises \/ staged
       /\ bucket' = IF staged THEN Put(bucket, blob.filename, csv) ELSE bucket
       /\ IF raises
            THEN /\ pending' = "export_feature_values"
                 /\ pc' = "exporter_delete_blob"
                 /\ steps' = [steps EXCEPT ![Len(steps)].export = "raised"]
            ELSE /\ pending' = pending
                 /\ pc' = "download_as_bytes"
                 /\ steps' = [steps EXCEPT ![Len(steps)].export = "returned"]
  /\ UNCHANGED <<parseVars, import_file, run, client_created, schema_k, step_k, blob,
                 error, ingested, remote_created, exportVars>>
  /\ UNCHANGED configVars
  /\ UNCHANGED runnerVars

\* _export_entity_and_features: blob.download_as_bytes().decode('utf-8') returns
\* the staged text, which is written to the buffer, or raises
DownloadAsBytes ==
  /\ pc = "download_as_bytes"
  /\ \E raises \in BOOLEAN :
       IF raises
         THEN /\ pending' = "download_as_bytes"
              /\ pc' = "exporter_delete_blob"
              /\ csv_file' = csv_file
              /\ steps' = [steps EXCEPT ![Len(steps)].download = "raised"]
         ELSE /\ pending' = pending
              /\ pc' = "process_entities_and_features"
              /\ csv_file' = Get(bucket, blob.filename)
              /\ steps' = [steps EXCEPT ![Len(steps)].download = "returned"]
  /\ UNCHANGED <<parseVars, import_file, run, client_created, calls, schema_k, step_k,
                 blob, bucket, error, ingested, remote_created, featurestores_data,
                 featurestore_id_regex, entity_type_id_regex, featurestore_objects,
                 entity_type_objects, fs_i, et_j, export_file>>
  /\ UNCHANGED configVars
  /\ UNCHANGED runnerVars

\* _process_entities_and_features: the buffer is decoded into the model, or
\* the csv reader raises; the buffer is closed
ProcessCsvFile ==
  /\ pc = "process_entities_and_features"
  /\ \E raises \in BOOLEAN :
       IF raises
         THEN /\ pending' = "csv"
              /\ featurestores_data' = featurestores_data
              /\ steps' = [steps EXCEPT ![Len(steps)].decode = "raised"]
         ELSE /\ pending' = pending
              /\ featurestores_data' =
                   Put(featurestores_data, CurrentFeaturestoreId,
                       [Get(featurestores_data, CurrentFeaturestoreId)
                          EXCEPT !.entity_types =
                            Put(@, CurrentEntityTypeId,
                                ProcessEntitiesAndFeatures(CurrentEntityTypeId,
                                                           CurrentEntityType, csv_file))])
              /\ steps' = [steps EXCEPT ![Len(steps)].decode = "returned"]
  /\ csv_file' = <<>>
  /\ pc' = "exporter_delete_blob"
  /\ UNCHANGED <<parseVars, import_file, run, client_created, calls, schema_k, step_k,
                 blob, bucket, error, ingested, remote_created, featurestore_id_regex,
                 entity_type_id_regex, featurestore_objects, entity_type_objects, fs_i,
                 et_j, export_file>>
  /\ UNCHANGED configVars
  /\ UNCHANGED runnerVars

\* mutant: blob.delete() only when the try block raised nothing
ExporterDeleteBlobAfterTry ==
  /\ pc = "exporter_delete_blob"
  /\ IF pending # NoException
       THEN /\ bucket' = bucket
            /\ steps' = [steps EXCEPT ![Len(steps)].left = TRUE]
            /\ Raise(pending)
       ELSE /\ bucket' = Remove(bucket, blob.filename)
            /\ steps' = [steps EXCEPT ![Len(steps)].deletes = @ + 1,
                                      ![Len(steps)].left = TRUE]
            /\ GoTo(LoopAt(featurestore_objects, fs_i, entity_type_objects, et_j + 1))
            /\ error' = error
  /\ blob' = NoBlob
  /\ UNCHANGED <<parseVars, import_file, run, client_created, calls, schema_k, step_k,
                 pending, ingested, remote_created, featurestores_data,
                 featurestore_id_regex, entity_type_id_regex, featurestore_objects,
                 csv_file, export_file>>
  /\ UNCHANGED configVars
  /\ UNCHANGED runnerVars

\* the finally clause of _export_entity_type_entity_data: blob.delete(), which
\* removes the object and returns, or finds no object and returns or raises;
\* then the pending exception, if any, goes on, or the loop goes on
ExporterDeleteBlob ==
  /\ pc = "exporter_delete_blob"
  /\ bucket' = Remove(bucket, blob.filename)
  /\ steps' = [steps EXCEPT ![Len(steps)].deletes = @ + 1, ![Len(steps)].left = TRUE]
  /\ \E not_found \in {FALSE, ~Has(bucket, blob.filename)} :
       IF not_found THEN Raise("delete")
       ELSE IF pending # NoException THEN Raise(pending)
       ELSE /\ GoTo(LoopAt(featurestore_objects, fs_i, entity_type_objects, et_j + 1))
            /\ error' = error
  /\ blob' = NoBlob
  /\ UNCHANGED <<parseVars, import_file, run, client_created, calls, schema_k, step_k,
                 pending, ingested, remote_created, featurestores_data,
                 featurestore_id_regex, entity_type_id_regex, featurestore_objects,
                 csv_file, export_file>>
  /\ UNCHANGED configVars
  /\ UNCHANGED runnerVars

\* execute: _write_to_file
WriteToFile ==
  /\ pc = "write_to_file"
  /\ export_file' = WriteToFileText(featurestores_data)
  /\ featurestores_data' = WriteFeaturestores(featurestores_data).featurestores_data
  /\ pc' = "returned"
  /\ UNCHANGED <<parseVars, import_file, run, client_created, calls, schema_k, step_k,
                 steps, blob, bucket, pending, error, ingested, remote_created,
                 featurestore_id_regex, entity_type_id_regex, featurestore_objects,
                 entity_type_objects, fs_i, et_j, csv_file>>
  /\ UNCHANGED configVars
  /\ UNCHANGED runnerVars

NextExport ==
  \/ ExportFeaturestores
  \/ ExportFeaturestoreData
  \/ ExportEntityTypeData
  \/ LocateFolderAndBlob
  \/ ExportFeatureValues
  \/ DownloadAsBytes
  \/ ProcessCsvFile
  \/ ExporterDeleteBlob
  \/ WriteToFile

SpecExport == InitExport /\ [][NextExport]_vars

(***************************************************************************)
(* SpecConstruct: a tool is constructed with a staging location, then      *)
(* executed.                                                               *)
(***************************************************************************)
VALUE_ERROR == "ValueError"

\* staging locations: the paths of the tests, a bucket alone, keys with and
\* without further slashes, no bucket, another scheme, a line feed in the key
GcsPaths ==
  {GS_SCRATCH_BUCKET,
   <<"g","s",":","/","/","b">>,
   <<"g","s",":","/","/","b","/","k","/","k">>,
   <<"/","/","s","/","s","/","p">>,
   <<"g","s",":","/","/">>,
   <<"g","s",":","/","/","/","k">>,
   <<"g","s",":","/","b","/","k">>,
   <<"x","g","s",":","/","/","b","/","k">>,
   <<"g","s",":","/","/","b","/","k","\n","k">>,
   <<>>}

\* import_tool.main or export_tool.main is about to construct its tool
InitConstruct ==
  /\ InitParseVars
  /\ InitRunnerVars
  /\ InitRunVars
  /\ gcs_path \in GcsPaths
  /\ featurestores_data = <<>>
  /\ featurestore_objects = <<>>
  /\ entity_type_objects = <<>>
  /\ fs_i = 1
  /\ et_j = 1
  /\ csv_file = <<>>
  /\ export_file = NoFile
  /\ \/ /\ pc = "data_importer_init"
        /\ import_file \in ImportFiles
        /\ featurestore_id_regex = <<>>
        /\ entity_type_id_regex = <<>>
     \/ /\ pc = "data_exporter_init"
        /\ import_file = <<>>
        /\ featurestore_id_regex \in IdRegexes
        /\ entity_type_id_regex \in IdRegexes

\* __init__ of either tool: the path is matched, then the fields are set
Construct(executing) ==
  /\ IF ReMatchGsOriginalPathFormat(gcs_path)
       THEN pc' = executing /\ error' = error
       ELSE pc' = "raised" /\ error' = VALUE_ERROR
  /\ UNCHANGED <<parseVars, import_file, run, client_created, calls, schema_k, step_k,
                 steps, blob, bucket, pending, ingested, remote_created, exportVars,
                 configVars, runnerVars>>

DataImporterInit ==
  /\ pc = "data_importer_init"
  /\ Construct("parse")

DataExporterInit ==
  /\ pc = "data_exporter_init"
  /\ Construct("export_featurestores")

NextConstruct ==
  \/ DataImporterInit
  \/ DataExporterInit
  \/ NextImport
  \/ NextExport

SpecConstruct == InitConstruct /\ [][NextConstruct]_vars

(***************************************************************************)
(* SpecRoundTrip: DataExporter._write_to_file writes a Data Model, then    *)
(* DataImporter._parse_schema_and_data reads the file it wrote.            *)
(***************************************************************************)
\* the cell of an entity that has no such feature
Absent == <<"absent">>

\* feature values: empty, plain, and one of the delimiter, the quote character
\* and a line feed
RoundTripValues == {<<>>, <<"1">>, <<"/", "\"", "\n">>}

\* entity ids: plain, and one that ends with the delimiter
RoundTripEntities == <<<<"e">>, <<"d", "/">>>>

RoundTripFeatures == <<<<"x">>, <<"y">>>>

ScalarValueTypes == {"BOOL", "DOUBLE", "INT64", "STRING"}

RoundTripCells ==
  [{<<e, f>> : e \in 1..Len(RoundTripEntities), f \in 1..Len(RoundTripFeatures)}
     -> RoundTripValues \cup {Absent}]

\* the entity with the features that cells gives a value
RoundTripEntity(cells, e) ==
  LET present == SelectSeq(<<1, 2>>, LAMBDA f : cells[<<e, f>>] # Absent) IN
  [features |->
     [i \in 1..Len(present) |->
        [key |-> RoundTripFeatures[present[i]],
         val |-> [value |-> cells[<<e, present[i]>>]]]]]

\* an entity type with typed features and the entities that have a value
RoundTripEntityType(cells, x_type, y_type) ==
  LET present == SelectSeq(<<1, 2>>,
                           LAMBDA e : RoundTripEntity(cells, e).features # <<>>) IN
  [features_metadata |->
     <<[key |-> RoundTripFeatures[1], val |-> [data_type |-> x_type]],
       [key |-> RoundTripFeatures[2], val |-> [data_type |-> y_type]]>>,
   entities |->
     [i \in 1..Len(present) |->
        [key |-> RoundTripEntities[present[i]],
         val |-> RoundTripEntity(cells, present[i])]]]

\* a second featurestore, whose id has the form of a mapped id of the first
RoundTripSecond ==
  [key |-> <<"f","_","d","3","d","7","5">>,
   val |-> [entity_types |->
              <<[key |-> <<"t">>,
                 val |-> [features_metadata |->
                            <<[key |-> <<"x">>, val |-> [data_type |-> "DOUBLE"]]>>,
                          entities |->
                            <<[key |-> <<"e">>,
                               val |-> [features |->
                                          <<[key |-> <<"x">>,
                                             val |-> [value |-> <<"1">>]]>>]]>>]]>>]]

RoundTripModels ==
  {<<[key |-> <<"f">>,
      val |-> [entity_types |->
                 <<[key |-> <<"t", "/", "u">>,
                    val |-> RoundTripEntityType(cells, x_type, "BOOL")]>>]]>> \o second :
     cells \in RoundTripCells, x_type \in ScalarValueTypes,
     second \in {<<>>, <<RoundTripSecond>>}}

InitRoundTrip ==
  /\ InitParseVars
  /\ InitRunnerVars
  /\ InitRunVars
  /\ InitConfigVars
  /\ import_file = <<>>
  /\ featurestores_data \in RoundTripModels
  /\ featurestore_id_regex = <<".", "*">>
  /\ entity_type_id_regex = <<".", "*">>
  /\ featurestore_objects = <<>>
  /\ entity_type_objects = <<>>
  /\ fs_i = 1
  /\ et_j = 1
  /\ csv_file = <<>>
  /\ export_file = NoFile
  /\ pc = "write_to_file"

\* the import tool is run on the exported file: csv.reader(file, delimiter='/')
ImportExportedFile ==
  /\ pc = "returned"
  /\ export_file # NoFile
  /\ import_file' = CsvReader(export_file, "/")
  /\ pc' = "parse"
  /\ UNCHANGED <<parseVars, run, client_created, calls, schema_k, step_k, steps, blob,
                 bucket, pending, error, ingested, remote_created, exportVars>>
  /\ UNCHANGED configVars
  /\ UNCHANGED runnerVars

NextRoundTrip ==
  \/ WriteToFile
  \/ ImportExportedFile
  \/ ExecuteReadRow

SpecRoundTrip == InitRoundTrip /\ [][NextRoundTrip]_vars

(***************************************************************************)
(* SpecRunner: FrameworkRunner.execute.  Every request to BigQuery, GKE,   *)
(* gcloud or Kubernetes returns or raises, an operation is DONE or not     *)
(* when it is read, a job has completed or not when its status is read.    *)
(***************************************************************************)
WAIT_TIME_PER_ITERATION_SECONDS == 15
MAX_WAIT_TIME_SECONDS == 1800

MaxTargetQps == 4
MaxClusterSize == 3

MAX_WAIT_EXCEEDED == "Maximum wait time exceeded"

\* str(n) of a natural number
RECURSIVE Decimal(_)
Decimal(n) ==
  IF n < 10 THEN <<<<"0","1","2","3","4","5","6","7","8","9">>[n + 1]>>
  ELSE Decimal(n \div 10) \o Decimal(n % 10)

\* _create_bq_dataset: the dataset id (without the project id)
DatasetId(qps, uuid4) ==
  <<"r","e","s","u","l","t","s","_">> \o Decimal(qps) \o <<"_","q","p","s","_">>
    \o SubSeq(uuid4, 1, SuffixLen)

\* _create_cluster: the cluster name
ClusterName(uuid4) ==
  <<"f","s","l","o","a","d","t","e","s","t","-">> \o SubSeq(uuid4, 1, SuffixLen)
    \o <<"-","c","l","u","s","t","e","r">>

\* mutant: the last pod gets the remainder alone, not on top of its share
CreateJobsRemainderOnly(qps, size) ==
  IF qps % size = 0
    THEN <<[pods |-> size, target_qps |-> qps \div size]>>
    ELSE <<[pods |-> size - 1, target_qps |-> qps \div size],
           [pods |-> 1, target_qps |-> qps % size]>>

\* _create_jobs: the (pods, target_qps) of the jobs it creates, in order
CreateJobs(qps, size) ==
  IF qps % size = 0
    THEN <<[pods |-> size, target_qps |-> qps \div size]>>
    ELSE <<[pods |-> size - 1, target_qps |-> qps \div size],
           [pods |-> 1, target_qps |-> (qps \div size) + (qps % size)]>>

\* a request execute makes, as it is kept in calls
RunnerCall(op, name) == [op |-> op, name |-> name, pods |-> 0, target_qps |-> 0]

\* the runner of the command line: a dataset id given or not, an existing
\* cluster named or not
InitRunner ==
  /\ InitParseVars
  /\ InitRunVars
  /\ InitExportVars
  /\ InitConfigVars
  /\ import_file = <<>>
  /\ pc = "execute"
  /\ target_qps \in 1..MaxTargetQps
  /\ cluster_size \in 1..MaxClusterSize
  /\ keep_cluster \in BOOLEAN
  /\ existing_cluster_name \in {<<>>, <<"m","y","-","c","l","u","s","t","e","r">>}
  /\ dataset_id \in {<<>>, <<"d","s">>}
  /\ cluster_name = <<>>
  /\ job_k = 1
  /\ current_wait = 0
  /\ sleeps = 0

\* what no action of the runner changes
RunnerFrame ==
  UNCHANGED <<parseVars, import_file, run, client_created, schema_k, step_k, steps,
              blob, bucket, ingested, remote_created, exportVars, configVars,
              target_qps, cluster_size, keep_cluster, existing_cluster_name>>

\* an exception leaves execute
RunnerRaise(exception) ==
  /\ pc' = "raised"
  /\ error' = exception
  /\ current_wait' = 0
  /\ sleeps' = 0

\* an exception is raised inside the try block of execute
RunnerRaiseInTry(exception) ==
  /\ pc' = "finally"
  /\ pending' = exception
  /\ error' = error
  /\ current_wait' = 0
  /\ sleeps' = 0

\* a wait loop is entered with current_wait = 0 when done is false, else passed
RunnerWait(done, waiting, after) ==
  /\ pc' = IF done THEN after ELSE waiting
  /\ current_wait' = 0
  /\ sleeps' = 0

\* mutant: a cluster as large as the target QPS is refused too
ExecuteRefusesEqual ==
  /\ pc = "execute"
  /\ IF cluster_size >= target_qps
       THEN RunnerRaise("cluster_size")
       ELSE /\ pc' = IF dataset_id = <<>> THEN "create_bq_dataset" ELSE "create_cluster"
            /\ UNCHANGED <<error, current_wait, sleeps>>
  /\ UNCHANGED <<calls, pending, dataset_id, cluster_name, job_k>>
  /\ RunnerFrame

\* execute: the check of the cluster size against the target QPS
Execute ==
  /\ pc = "execute"
  /\ IF cluster_size > target_qps
       THEN RunnerRaise("cluster_size")
       ELSE /\ pc' = IF dataset_id = <<>> THEN "create_bq_dataset" ELSE "create_cluster"
            /\ UNCHANGED <<error, current_wait, sleeps>>
  /\ UNCHANGED <<calls, pending, dataset_id, cluster_name, job_k>>
  /\ RunnerFrame

\* _create_bq_dataset: get_dataset returns, or raises NotFound and
\* create_dataset returns or raises, or raises another error
CreateBqDataset ==
  /\ pc = "create_bq_dataset"
  /\ \E uuid4 \in Uuid4Prefixes :
     \E outcome \in {"found", "created", "get_dataset", "create_dataset"} :
       LET id == DatasetId(target_qps, uuid4) IN
       /\ calls' = calls \o <<RunnerCall("get_dataset", id)>>
                     \o IF outcome \in {"created", "create_dataset"}
                          THEN <<RunnerCall("create_dataset", id)>> ELSE <<>>
       /\ IF outcome \in {"found", "created"}
            THEN /\ dataset_id' = id
                 /\ pc' = "create_cluster"
                 /\ UNCHANGED <<error, current_wait, sleeps>>
            ELSE /\ dataset_id' = dataset_id
                 /\ RunnerRaise(outcome)
  /\ UNCHANGED <<pending, cluster_name, job_k>>
  /\ RunnerFrame

\* execute: an existing cluster name is taken as the cluster name
UseExistingCluster ==
  /\ pc = "create_cluster"
  /\ existing_cluster_name # <<>>
  /\ cluster_name' = existing_cluster_name
  /\ pc' = "load_credentials"
  /\ UNCHANGED <<calls, pending, error, dataset_id, job_k, current_wait, sleeps>>
  /\ RunnerFrame

\* _create_cluster: clusters().create(...).execute() raises, or returns an
\* operation that is DONE or not
CreateCluster ==
  /\ pc = "create_cluster"
  /\ existing_cluster_name = <<>>
  /\ \E uuid4 \in Uuid4Prefixes, raises \in BOOLEAN, done \in BOOLEAN :
       /\ calls' = Append(calls, RunnerCall("create_cluster", ClusterName(uuid4)))
       /\ IF raises
            THEN RunnerRaise("create_cluster") /\ cluster_name' = cluster_name
            ELSE /\ RunnerWait(done, "wait_for_create_operation", "load_credentials")
                 /\ cluster_name' = IF done THEN ClusterName(uuid4) ELSE cluster_name
                 /\ error' = error
  /\ UNCHANGED <<pending, dataset_id, job_k>>
  /\ RunnerFrame

\* mutant: the wait may not reach the maximum
SleepWithTimeoutBelowMaximum(wait) ==
  [current_wait |-> wait + WAIT_TIME_PER_ITERATION_SECONDS,
   raises |-> wait + WAIT_TIME_PER_ITERATION_SECONDS >= MAX_WAIT_TIME_SECONDS]

\* _sleep_with_timeout: the wait after the sleep, and whether it is too long
SleepWithTimeout(wait) ==
  [current_wait |-> wait + WAIT_TIME_PER_ITERATION_SECONDS,
   raises |-> wait + WAIT_TIME_PER_ITERATION_SECONDS > MAX_WAIT_TIME_SECONDS]

\* _sleep_with_timeout raises after its sleep, in the try block of execute or
\* outside it
RunnerTimeout(in_try) ==
  /\ pc' = IF in_try THEN "finally" ELSE "raised"
  /\ pending' = IF in_try THEN MAX_WAIT_EXCEEDED ELSE pending
  /\ error' = IF in_try THEN error ELSE MAX_WAIT_EXCEEDED
  /\ current_wait' = SleepWithTimeout(current_wait).current_wait
  /\ sleeps' = sleeps + 1

\* the name of the cluster whose create request returned
CreatedClusterName == calls[Len(calls)].name

\* one iteration of _wait_for_operation in _create_cluster: the sleep, then
\* operations().get(...).execute() raises or returns a status, DONE or not
WaitForCreateOperation ==
  /\ pc = "wait_for_create_operation"
  /\ IF SleepWithTimeout(current_wait).raises
       THEN RunnerTimeout(FALSE) /\ cluster_name' = cluster_name
       ELSE \E raises \in BOOLEAN, done \in BOOLEAN :
              IF raises
                THEN RunnerRaise("operations_get") /\ cluster_name' = cluster_name
              ELSE IF done
                THEN /\ RunnerWait(TRUE, pc, "load_credentials")
                     /\ cluster_name' = CreatedClusterName
                     /\ error' = error
              ELSE /\ current_wait' = SleepWithTimeout(current_wait).current_wait
                   /\ sleeps' = sleeps + 1
                   /\ UNCHANGED <<pc, error, cluster_name>>
  /\ UNCHANGED <<calls, pending, dataset_id, job_k>>
  /\ RunnerFrame

\* _load_credentials: gcloud get-credentials and load_kube_config return, or
\* one of them raises
LoadCredentials ==
  /\ pc = "load_credentials"
  /\ calls' = Append(calls, RunnerCall("get_credentials", cluster_name))
  /\ \E raises \in BOOLEAN :
       IF raises
         THEN RunnerRaiseInTry("load_credentials")
         ELSE pc' = "create_jobs" /\ UNCHANGED <<pending, error, current_wait, sleeps>>
  /\ UNCHANGED <<dataset_id, cluster_name, job_k>>
  /\ RunnerFrame

\* _create_job for the next job of _create_jobs: create_from_yaml returns or raises
CreateJob ==
  /\ pc = "create_jobs"
  /\ calls' = Append(calls, [op |-> "create_job", name |-> <<>>,
                            pods |-> CreateJobs(target_qps, cluster_size)[job_k].pods,
                            target_qps |->
                              CreateJobs(target_qps, cluster_size)[job_k].target_qps])
  /\ \E raises \in BOOLEAN :
       IF raises
         THEN RunnerRaiseInTry("create_from_yaml") /\ job_k' = 1
       ELSE IF job_k < Len(CreateJobs(target_qps, cluster_size))
         THEN /\ job_k' = job_k + 1
              /\ UNCHANGED <<pc, pending, error, current_wait, sleeps>>
       ELSE /\ job_k' = 1
            /\ pc' = "wait_for_job_to_complete"
            /\ UNCHANGED <<pending, error, current_wait, sleeps>>
  /\ UNCHANGED <<dataset_id, cluster_name>>
  /\ RunnerFrame

\* the loop of execute goes on to the next job, or the try block is left
AfterJob ==
  IF job_k < Len(CreateJobs(target_qps, cluster_size))
    THEN "wait_for_job_to_complete" ELSE "finally"

\* _wait_for_job_to_complete: the first read_namespaced_job_status raises, or
\* returns a status that has failed or succeeded set, or neither
WaitForJobToComplete ==
  /\ pc = "wait_for_job_to_complete"
  /\ \E raises \in BOOLEAN, completed \in BOOLEAN :
       IF raises
         THEN RunnerRaiseInTry("read_namespaced_job_status") /\ job_k' = 1
         ELSE /\ RunnerWait(completed, "job_status_loop", AfterJob)
              /\ job_k' = IF ~completed THEN job_k
                          ELSE IF AfterJob = "finally" THEN 1 ELSE job_k + 1
              /\ UNCHANGED <<pending, error>>
  /\ UNCHANGED <<calls, dataset_id, cluster_name>>
  /\ RunnerFrame

\* one iteration of the loop of _wait_for_job_to_complete: the sleep, then
\* read_namespaced_job_status raises or returns a status, completed or not
JobStatusLoop ==
  /\ pc = "job_status_loop"
  /\ IF SleepWithTimeout(current_wait).raises
       THEN RunnerTimeout(TRUE) /\ job_k' = 1
       ELSE \E raises \in BOOLEAN, completed \in BOOLEAN :
              IF raises
                THEN RunnerRaiseInTry("read_namespaced_job_status") /\ job_k' = 1
              ELSE IF completed
                THEN /\ RunnerWait(TRUE, pc, AfterJob)
                     /\ job_k' = IF AfterJob = "finally" THEN 1 ELSE job_k + 1
                     /\ UNCHANGED <<pending, error>>
              ELSE /\ current_wait' = SleepWithTimeout(current_wait).current_wait
                   /\ sleeps' = sleeps + 1
                   /\ UNCHANGED <<pc, pending, error, job_k>>
  /\ UNCHANGED <<calls, dataset_id, cluster_name>>
  /\ RunnerFrame

\* the finally clause is left: the pending exception goes on, or execute returns
RunnerLeaveFinally ==
  /\ pc' = IF pending # NoException THEN "raised" ELSE "returned"
  /\ error' = pending
  /\ current_wait' = 0
  /\ sleeps' = 0

\* the finally clause of execute for a kept or an existing cluster
KeepCluster ==
  /\ pc = "finally"
  /\ keep_cluster \/ existing_cluster_name # <<>>
  /\ RunnerLeaveFinally
  /\ UNCHANGED <<calls, pending, dataset_id, cluster_name, job_k>>
  /\ RunnerFrame

\* mutant: the cluster is deleted after the try block, not in a finally clause
DeleteClusterAfterTry ==
  /\ pc = "finally"
  /\ ~keep_cluster /\ existing_cluster_name = <<>>
  /\ IF pending # NoException
       THEN RunnerLeaveFinally /\ calls' = calls
       ELSE /\ calls' = Append(calls, RunnerCall("delete_cluster", cluster_name))
            /\ \E raises \in BOOLEAN, done \in BOOLEAN :
                 IF raises THEN RunnerRaise("delete_cluster")
                 ELSE IF done THEN RunnerLeaveFinally
                 ELSE RunnerWait(FALSE, "wait_for_delete_operation", pc) /\ error' = error
  /\ UNCHANGED <<pending, dataset_id, cluster_name, job_k>>
  /\ RunnerFrame

\* the finally clause of execute, _delete_cluster: clusters().delete(...)
\* .execute() raises, or returns an operation that is DONE or not
DeleteCluster ==
  /\ pc = "finally"
  /\ ~keep_cluster /\ existing_cluster_name = <<>>
  /\ calls' = Append(calls, RunnerCall("delete_cluster", cluster_name))
  /\ \E raises \in BOOLEAN, done \in BOOLEAN :
       IF raises THEN RunnerRaise("delete_cluster")
       ELSE IF done THEN RunnerLeaveFinally
       ELSE RunnerWait(FALSE, "wait_for_delete_operation", pc) /\ error' = error
  /\ UNCHANGED <<pending, dataset_id, cluster_name, job_k>>
  /\ RunnerFrame

\* one iteration of _wait_for_operation in _delete_cluster
WaitForDeleteOperation ==
  /\ pc = "wait_for_delete_operation"
  /\ IF SleepWithTimeout(current_wait).raises
       THEN RunnerTimeout(FALSE)
       ELSE \E raises \in BOOLEAN, done \in BOOLEAN :
              IF raises THEN RunnerRaise("operations_get")
              ELSE IF done THEN RunnerLeaveFinally
              ELSE /\ current_wait' = SleepWithTimeout(current_wait).current_wait
                   /\ sleeps' = sleeps + 1
                   /\ UNCHANGED <<pc, error>>
  /\ UNCHANGED <<calls, pending, dataset_id, cluster_name, job_k>>
  /\ RunnerFrame

NextRunner ==
  \/ Execute
  \/ CreateBqDataset
  \/ UseExistingCluster
  \/ CreateCluster
  \/ WaitForCreateOperation
  \/ LoadCredentials
  \/ CreateJob
  \/ WaitForJobToComplete
  \/ JobStatusLoop
  \/ KeepCluster
  \/ DeleteCluster
  \/ WaitForDeleteOperation

SpecRunner == InitRunner /\ [][NextRunner]_vars

\* the process goes on: a sleep returns and a request returns or raises
SpecRunnerFair == SpecRunner /\ WF_vars(NextRunner)

(***************************************************************************)
(* Reading the Data Model.                                                 *)
(***************************************************************************)
\* the entity type of a featurestore of the model; an empty one when absent
EntityTypeOf(fss, featurestore_id, entity_type_id) ==
  DefaultGet(DefaultGet(fss, featurestore_id, Featurestore).entity_types,
             entity_type_id, EntityType)

\* the entity type a parsed line v goes to, under the id map
EntityTypeFor(fss, id_map, v) ==
  IF Has(id_map, v.featurestore_id)
    THEN EntityTypeOf(fss, Get(id_map, v.featurestore_id), v.entity_type_id)
    ELSE EntityType

HasValue(entity_type, entity_id, feature_id) ==
  /\ Has(entity_type.entities, entity_id)
  /\ Has(Get(entity_type.entities, entity_id).features, feature_id)

ValueOf(entity_type, entity_id, feature_id) ==
  Get(Get(entity_type.entities, entity_id).features, feature_id).value

\* the (featurestore, entity type, entity, feature) -> value content of a model
EntityContent(prefix, features) ==
  {prefix \o <<features[l].key, features[l].val.value>> : l \in 1..Len(features)}

EntityTypeContent(prefix, entities) ==
  UNION {EntityContent(prefix \o <<entities[k].key>>, entities[k].val.features) :
           k \in 1..Len(entities)}

FeaturestoreContent(prefix, entity_types) ==
  UNION {EntityTypeContent(prefix \o <<entity_types[j].key>>,
                           entity_types[j].val.entities) :
           j \in 1..Len(entity_types)}

Content(fss) ==
  UNION {FeaturestoreContent(<<fss[i].key>>, fss[i].val.entity_types) :
           i \in 1..Len(fss)}

(***************************************************************************)
(* Claims about the parser (SpecParse).                                    *)
(***************************************************************************)
\* C2: once a feature id has a recorded value type in its entity type, a later
\* 12-token line for that feature id, whatever its data-type token, leaves the
\* recorded types of the entity type unchanged and its value is stored.
C2_FirstWriteWins ==
  [][LET v      == ParseValues(row')
         before == EntityTypeFor(featurestores, featurestore_id_map, v)
         after  == EntityTypeFor(featurestores', featurestore_id_map', v)
     IN  (v.success /\ Has(before.features_metadata, v.feature_id))
         => /\ after.features_metadata = before.features_metadata
            /\ HasValue(after, v.entity_id, v.feature_id)
            /\ ValueOf(after, v.entity_id, v.feature_id) = v.feature_value
            /\ warnings' = warnings]_vars

\* a later line names another scalar type than the recorded one, and is stored
C2_Witness ==
  LET v  == ParseValues(row)
      et == EntityTypeFor(featurestores, featurestore_id_map, v)
  IN  /\ lineno >= 2
      /\ v.success
      /\ Upper(v.feature_data_type) = ValueTypeName["BOOL"]
      /\ Has(et.features_metadata, v.feature_id)
      /\ Get(et.features_metadata, v.feature_id).data_type = "INT64"
      /\ HasValue(et, v.entity_id, v.feature_id)
      /\ ValueOf(et, v.entity_id, v.feature_id) = v.feature_value

\* C3: a row that does not have exactly 12 tokens logs exactly one warning and
\* changes neither the Data Model nor the featurestore-id map; the model and the
\* map always equal those parsed from the 12-token rows alone.
C3_MalformedLineResilience ==
  /\ [](/\ featurestores = wellformed.featurestores
        /\ featurestore_id_map = wellformed.featurestore_id_map
        /\ generated = wellformed.generated)
  /\ [][Len(row') # 12
          => /\ featurestores' = featurestores
             /\ featurestore_id_map' = featurestore_id_map
             /\ generated' = generated
             /\ warnings' = warnings + 1]_vars

\* a 12-token row was stored after a malformed row had been skipped
C3_Witness ==
  LET v  == ParseValues(row)
      et == EntityTypeFor(featurestores, featurestore_id_map, v)
  IN  /\ v.success
      /\ warnings > wellformed.warnings
      /\ HasValue(et, v.entity_id, v.feature_id)
      /\ ValueOf(et, v.entity_id, v.feature_id) = v.feature_value

\* C4: a 12-token line whose feature id has no recorded type, and whose
\* upper-cased data-type token names no value type or names an array type,
\* creates no metadata entry, stores no value in any entity and logs exactly
\* one warning.
C4_TypeRejection ==
  [][LET v      == ParseValues(row')
         upper  == Upper(v.feature_data_type)
         before == EntityTypeFor(featurestores, featurestore_id_map, v)
         after  == EntityTypeFor(featurestores', featurestore_id_map', v)
     IN  (/\ v.success
          /\ ~Has(before.features_metadata, v.feature_id)
          /\ \/ upper \notin {ValueTypeName[vt] : vt \in ValueType}
             \/ upper \in {ValueTypeName[vt] : vt \in ArrayValueTypes})
         => /\ ~Has(after.features_metadata, v.feature_id)
            /\ after = before
            /\ Content(featurestores') = Content(featurestores)
            /\ warnings' = warnings + 1]_vars

\* an array-typed line was dropped while another feature of the entity type is stored
C4_Witness ==
  LET v  == ParseValues(row)
      et == EntityTypeFor(featurestores, featurestore_id_map, v)
  IN  /\ v.success
      /\ Upper(v.feature_data_type) = ValueTypeName["INT64_ARRAY"]
      /\ ~Has(et.features_metadata, v.feature_id)
      /\ et.features_metadata # <<>>
      /\ ~HasValue(et, v.entity_id, v.feature_id)
      /\ warnings >= 1

\* C11: a 12-token line with an empty data-type token, for a feature id that
\* has a recorded type in its entity type, keeps the recorded types, stores
\* its value and logs nothing; for a feature id without recorded type it logs
\* one warning and stores neither metadata nor a value.
C11_BlankDataTypeToken ==
  [][LET v      == ParseValues(row')
         before == EntityTypeFor(featurestores, featurestore_id_map, v)
         after  == EntityTypeFor(featurestores', featurestore_id_map', v)
     IN  (v.success /\ v.feature_data_type = <<>>)
         => IF Has(before.features_metadata, v.feature_id)
              THEN /\ after.features_metadata = before.features_metadata
                   /\ HasValue(after, v.entity_id, v.feature_id)
                   /\ ValueOf(after, v.entity_id, v.feature_id) = v.feature_value
                   /\ warnings' = warnings
              ELSE /\ after = before
                   /\ ~Has(after.features_metadata, v.feature_id)
                   /\ Content(featurestores') = Content(featurestores)
                   /\ warnings' = warnings + 1]_vars

\* the token 'int64' recorded INT64 for a feature, and a later line of the
\* feature with an empty token was stored for a second entity
C11_Witness ==
  LET v  == ParseValues(row)
      et == EntityTypeFor(featurestores, featurestore_id_map, v)
  IN  /\ v.success
      /\ v.feature_data_type = <<>>
      /\ v.entity_id = <<"d">>
      /\ warnings = 0
      /\ Get(et.features_metadata, v.feature_id).data_type = "INT64"
      /\ HasValue(et, v.entity_id, v.feature_id)
      /\ ValueOf(et, v.entity_id, v.feature_id) = v.feature_value
      /\ Len(et.entities) = 2

\* the (featurestore, entity type, entity, feature) a 12-token line is stored
\* under, given the id map
CellOf(id_map, v) ==
  <<Get(id_map, v.featurestore_id), v.entity_type_id, v.entity_id, v.feature_id>>

\* C12: a line that is stored sets the value of its (featurestore, entity
\* type, entity, feature) to its own value, whatever was there, and leaves
\* every other value as it was; a line that is not stored changes no value.
\* So each value of the model is that of the last stored line that names it.
C12_ValuesLastWriteWins ==
  [][LET v == ParseValues(row') IN
     IF v.success /\ warnings' = warnings
       THEN Content(featurestores') =
              {t \in Content(featurestores) :
                 SubSeq(t, 1, 4) # CellOf(featurestore_id_map', v)}
                \cup {CellOf(featurestore_id_map', v) \o <<v.feature_value>>}
       ELSE Content(featurestores') = Content(featurestores)]_vars

\* the value of a feature was overwritten by a later line while the value of
\* another feature of the entity stayed
C12_Witness ==
  LET v  == ParseValues(row)
      et == EntityTypeFor(featurestores, featurestore_id_map, v)
  IN  /\ v.success
      /\ lineno = 3
      /\ warnings = 0
      /\ Cardinality(Content(featurestores)) = 2
      /\ v.feature_id = <<"x">>
      /\ v.feature_value = <<"2">>
      /\ ValueOf(et, v.entity_id, <<"x">>) = <<"2">>
      /\ wellformed.warnings = 0
      /\ HasValue(et, v.entity_id, <<"y">>)
      /\ ValueOf(et, v.entity_id, <<"y">>) = <<"3">>
      /\ Len(et.features_metadata) = 2

\* gs://<bucket>[/<key>]: the scheme, a bucket of one or more characters
\* without a slash, then nothing or a slash and a key
GsBucketKeyForm(path) ==
  \E n \in 1..Len(path) :
    /\ SubSeq(path, 1, Len(GS_SCHEME)) = GS_SCHEME
    /\ n > Len(GS_SCHEME)
    /\ \A i \in (Len(GS_SCHEME) + 1)..n : path[i] # "/"
    /\ n < Len(path) => path[n + 1] = "/"

\* C13: the constructor of either tool raises ValueError for a staging
\* location that is not of the form gs://<bucket>[/<key>]; the error is raised
\* by the constructor only, and with it no featurestore client was made, no
\* featurestore-service call and no storage call was issued, no row of the
\* import file was read and no export file was written.
C13_BadStagingLocation ==
  /\ [](error = VALUE_ERROR
          => /\ pc = "raised"
             /\ ~client_created
             /\ calls = <<>> /\ remote_created = <<>>
             /\ steps = <<>> /\ bucket = <<>> /\ blob = NoBlob /\ ingested = <<>>
             /\ lineno = 0 /\ featurestores = <<>>
             /\ export_file = NoFile /\ featurestores_data = <<>>)
  /\ [][/\ (pc \in {"data_importer_init", "data_exporter_init"}
            /\ ~GsBucketKeyForm(gcs_path))
           => (pc' = "raised" /\ error' = VALUE_ERROR)
        /\ error' = VALUE_ERROR
           => pc \in {"data_importer_init", "data_exporter_init", "raised"}]_vars

\* the path of the tests' bad-path case was rejected
C13_Witness ==
  /\ error = VALUE_ERROR
  /\ pc = "raised"
  /\ gcs_path = <<"/","/","s","/","s","/","p">>

\* C9, as the code has it: a mapped id, original id + '_' + 5 characters, is
\* generated exactly once per distinct original featurestore id, on the first
\* 12-token row naming it; later rows with that id leave the map alone and go
\* to the same mapped id; the featurestores of the model are keyed by the
\* mapped ids, and no mapped id is the id it maps.
C9_CollisionAvoidanceMap ==
  /\ [](/\ KeySet(featurestore_id_map) = originals
        /\ generated = Cardinality(originals)
        /\ Len(featurestore_id_map) = Cardinality(originals)
        /\ KeySet(featurestores) =
             {featurestore_id_map[i].val : i \in 1..Len(featurestore_id_map)}
        /\ \A i \in 1..Len(featurestore_id_map) :
             /\ featurestore_id_map[i].val # featurestore_id_map[i].key
             /\ \E u \in Uuid4Prefixes :
                  featurestore_id_map[i].val =
                    featurestore_id_map[i].key \o <<"_">> \o u)
  /\ [][LET v == ParseValues(row') IN
        v.success =>
          /\ Has(featurestore_id_map', v.featurestore_id)
          /\ Has(featurestores', Get(featurestore_id_map', v.featurestore_id))
          /\ Has(featurestore_id_map, v.featurestore_id)
               => /\ featurestore_id_map' = featurestore_id_map
                  /\ generated' = generated
                  /\ Keys(featurestores') = Keys(featurestores)
          /\ ~Has(featurestore_id_map, v.featurestore_id)
               => /\ generated' = generated + 1
                  /\ SubSeq(featurestore_id_map', 1, Len(featurestore_id_map))
                       = featurestore_id_map]_vars

\* a second row of a featurestore was stored under the mapped id of the first
C9_Witness ==
  LET v == ParseValues(row) IN
  /\ v.success
  /\ lineno = 3
  /\ generated = 2
  /\ Len(featurestores) = 2
  /\ Len(Get(Get(featurestores, Get(featurestore_id_map, v.featurestore_id))
               .entity_types, v.entity_type_id).entities) = 2

\* C9, as stated: no original featurestore id of the file is a key of the model.
C9_OriginalIdNeverAKey == KeySet(featurestores) \cap originals = {}

(***************************************************************************)
(* Claims about DataImporter.execute (SpecImport, SpecReimport).           *)
(***************************************************************************)
\* C1: every (featurestore, entity type) whose upload step is entered has its
\* staging object deleted exactly once, whether the upload returned, the upload
\* raised or the ingestion job raised: no delete before the step is left, one
\* when it is left, no staging object once execute has ended; and when the
\* ingestion job raised, execute ends raising that exception, after the delete.
C1_ImporterCleanup ==
  /\ \A k \in 1..Len(steps) :
       /\ steps[k].featurestore_id = UploadData(featurestores)[k].featurestore_id
       /\ steps[k].entity_type_id = UploadData(featurestores)[k].entity_type_id
       /\ steps[k].deletes = IF steps[k].left THEN 1 ELSE 0
       /\ k < Len(steps) => steps[k].left
       /\ (steps[k].left /\ steps[k].ingestion = "raised")
            => pc = "raised" /\ error = "import_feature_values"
       /\ (steps[k].left /\ steps[k].upload = "raised") => pc = "raised"
  /\ pc \in {"returned", "raised"}
       => /\ \A k \in 1..Len(steps) : steps[k].left
          /\ bucket = <<>>
  /\ pc = "returned" => Len(steps) = Len(UploadData(featurestores))

\* the ingestion job of a second entity type raised: execute raised, after the delete
C1_Witness ==
  /\ pc = "raised"
  /\ error = "import_feature_values"
  /\ Len(steps) = 2
  /\ steps[1].ingestion = "returned" /\ steps[1].deletes = 1
  /\ steps[2].ingestion = "raised" /\ steps[2].deletes = 1
  /\ bucket = <<>>

\* C5: when no line of the input file is stored successfully, execute creates
\* no featurestore client, makes no featurestore-service call, touches no
\* staging object and returns without error.
C5_NoStoredLineNoRemoteCalls ==
  (pc # "parse" /\ Content(wellformed.featurestores) = {})
    => /\ ~client_created
       /\ calls = <<>>
       /\ steps = <<>>
       /\ pc = "returned"

\* C10: over the runs of the import tool on one file, no featurestore id is
\* requested twice of create_featurestore.
C10_ReimportDistinctIds ==
  \A a, b \in 1..Len(remote_created) :
    a # b => remote_created[a].featurestore_id # remote_created[b].featurestore_id

(***************************************************************************)
(* Claims about DataExporter.execute (SpecExport).                         *)
(***************************************************************************)
\* some prefix of the id, the empty one included, is matched in full
MatchesPrefix(pattern, id) ==
  \E n \in 0..Len(id) : ReFullMatch(pattern, SubSeq(id, 1, n))

\* the featurestore service was asked for nothing of a featurestore or entity
\* type that Kept rejects
OnlyKeptAreCalled(Kept(_, _)) ==
  \A k \in 1..Len(calls) :
    /\ calls[k].op = "list_entity_types"
         => \E f \in {DOG, CAT} :
              /\ calls[k].arg = FeaturestoreName(f)
              /\ Kept(featurestore_id_regex, f)
    /\ calls[k].op \in {"list_features", "export_feature_values"}
         => \E f \in {DOG, CAT}, e \in {DOG, CAT} :
              /\ calls[k].arg = EntityTypeName(FeaturestoreName(f), e)
              /\ Kept(featurestore_id_regex, f)
              /\ Kept(entity_type_id_regex, e)

\* the step that filters a listed featurestore or entity type keeps it (puts
\* it in the model and asks the service for its contents) iff Kept holds of it
FilterStep(Kept(_, _)) ==
  /\ pc = "export_featurestore_data"
       => LET kept == Kept(featurestore_id_regex, CurrentFeaturestoreId) IN
          /\ Has(featurestores_data', CurrentFeaturestoreId) <=> kept
          /\ (Len(calls') = Len(calls) + 1
                /\ calls'[Len(calls')].op = "list_entity_types"
                /\ calls'[Len(calls')].arg = featurestore_objects[fs_i].name) <=> kept
          /\ ~kept => calls' = calls /\ featurestores_data' = featurestores_data
  /\ pc = "export_entity_type_data"
       => LET kept == Kept(entity_type_id_regex, CurrentEntityTypeId) IN
          /\ Has(Get(featurestores_data', CurrentFeaturestoreId).entity_types,
                 CurrentEntityTypeId) <=> kept
          /\ (Len(calls') = Len(calls) + 1
                /\ calls'[Len(calls')].op = "list_features"
                /\ calls'[Len(calls')].arg = entity_type_objects[et_j].name) <=> kept
          /\ ~kept => calls' = calls /\ featurestores_data' = featurestores_data
          /\ pc' = "locate_folder_and_blob" => kept

\* C7, as the code has it: a featurestore, and an entity type of a kept
\* featurestore, is kept iff its regex matches a prefix of its id (re.match);
\* the entity types of a rejected featurestore are never listed, and the
\* features of a rejected entity type are never listed nor exported.
C7_ExporterFilter ==
  /\ [](OnlyKeptAreCalled(MatchesPrefix))
  /\ [][FilterStep(MatchesPrefix)]_vars

C7_Witness ==
  /\ featurestore_id_regex = <<"d", "o">>
  /\ entity_type_id_regex = <<"d", ".", "*">>
  /\ pc = "returned"
  /\ KeySet(featurestores_data) = {DOG}
  /\ KeySet(Get(featurestores_data, DOG).entity_types) = {DOG}
  /\ \E k \in 1..Len(calls) : calls[k].op = "export_feature_values"

\* C7, as stated: kept iff the regex matches the id in full.
C7_FullMatchFilter ==
  /\ [](OnlyKeptAreCalled(ReFullMatch))
  /\ [][FilterStep(ReFullMatch)]_vars

\* C8: every export step that entered its try block issues blob.delete()
\* exactly once when it leaves, whether the export job, the download or the
\* CSV decoding returned or raised; a step that raised ends the run with an
\* exception; outside a step no staging object exists.
C8_ExporterCleanup ==
  /\ \A k \in 1..Len(steps) :
       /\ steps[k].deletes = IF steps[k].left THEN 1 ELSE 0
       /\ k < Len(steps) => steps[k].left
       /\ steps[k].left
            => \/ steps[k].decode \in {"returned", "raised"}
               \/ steps[k].download = "raised"
               \/ steps[k].export = "raised"
       /\ (steps[k].left
             /\ "raised" \in {steps[k].export, steps[k].download, steps[k].decode})
            => pc = "raised"
  /\ pc \notin {"export_feature_values", "download_as_bytes",
                "process_entities_and_features", "exporter_delete_blob"}
       => /\ \A k \in 1..Len(steps) : steps[k].left
          /\ bucket = <<>>
  /\ \A k \in 1..Len(calls) :
       calls[k].op = "export_feature_values"
         => \E n \in 1..Len(steps) :
              /\ steps[n].featurestore_id = calls[k].featurestore_id
              /\ steps[n].entity_type_id = calls[k].entity_type_id

C8_Witness ==
  /\ pc = "raised"
  /\ Len(steps) = 3
  /\ steps[1].decode = "returned" /\ steps[1].deletes = 1
  /\ steps[2].decode = "returned" /\ steps[2].deletes = 1
  /\ steps[3].decode = "raised" /\ steps[3].deletes = 1
  /\ bucket = <<>>

(***************************************************************************)
(* Claims about the round trip (SpecRoundTrip).                            *)
(***************************************************************************)
\* the exported file has been read to its end by the importer
RoundTripDone ==
  pc = "parse" /\ export_file # NoFile /\ lineno = Len(import_file)

\* the data types of the features that have a value
Types(fss) ==
  {<<t[1], t[2], t[4],
     Get(EntityTypeOf(fss, t[1], t[2]).features_metadata, t[4]).data_type>> :
     t \in Content(fss)}

\* C6, as the code has it: the importer's parse of what the exporter wrote
\* has the content of the exported model under the importer's mapping of
\* featurestore ids: the mapping is one-to-one and gives each exported id
\* followed by '_' and five characters, and the entity type, entity and
\* feature ids, the data types and the values are the exported ones; no line
\* is dropped.
C6_RoundTripUpToFeaturestoreIds ==
  RoundTripDone
    => /\ warnings = 0
       /\ KeySet(featurestore_id_map) = {t[1] : t \in Content(featurestores_data)}
       /\ \A a, b \in KeySet(featurestore_id_map) :
            /\ Len(Get(featurestore_id_map, a)) = Len(a) + 1 + SuffixLen
            /\ SubSeq(Get(featurestore_id_map, a), 1, Len(a) + 1) = a \o <<"_">>
            /\ a # b => Get(featurestore_id_map, a) # Get(featurestore_id_map, b)
       /\ Content(featurestores) =
            {<<Get(featurestore_id_map, t[1]), t[2], t[3], t[4], t[5]>> :
               t \in Content(featurestores_data)}
       /\ Types(featurestores) =
            {<<Get(featurestore_id_map, t[1]), t[2], t[3], t[4]>> :
               t \in Types(featurestores_data)}

C6_Witness ==
  /\ RoundTripDone
  /\ Len(import_file) = 5
  /\ KeySet(featurestore_id_map) = {<<"f">>, <<"f","_","d","3","d","7","5">>}
  /\ Get(featurestore_id_map, <<"f">>) = <<"f","_","d","3","d","7","5">>
  /\ <<<<"f","_","d","3","d","7","5">>, <<"t", "/", "u">>, <<"d", "/">>, <<"y">>,
       <<"/", "\"", "\n">>>> \in Content(featurestores)

\* C6, as stated: the parse has the very content of the exported model.
C6_RoundTripIdentical ==
  RoundTripDone => Content(featurestores) = Content(featurestores_data)

(***************************************************************************)
(* Claims about the files the tools write.                                 *)
(***************************************************************************)
\* where a (featurestore, entity type, entity, feature) stands in the
\* insertion orders of a model
PositionOf(fss, cell) ==
  LET entity_types == Get(fss, cell[1]).entity_types
      entities     == Get(entity_types, cell[2]).entities
      features     == Get(entities, cell[3]).features
  IN  <<IndexOf(fss, cell[1]), IndexOf(entity_types, cell[2]),
        IndexOf(entities, cell[3]), IndexOf(features, cell[4])>>

\* lexicographic order of two positions
Before(p, q) ==
  \E n \in 1..4 : p[n] < q[n] /\ \A m \in 1..(n - 1) : p[m] = q[m]

\* the 12-token lines of the model fss, as the claim has them
IsFlatFileOf(lines, fss) ==
  \E content \in {Content(fss)} :
  \E positions \in {[k \in 1..Len(lines) |->
                       IF Len(lines[k]) = 12
                            /\ <<lines[k][2], lines[k][4], lines[k][6], lines[k][8],
                                 lines[k][12]>> \in content
                         THEN PositionOf(fss, <<lines[k][2], lines[k][4], lines[k][6],
                                                lines[k][8]>>)
                         ELSE <<0, 0, 0, 0>>]} :
    /\ Len(lines) = Cardinality(content)
    /\ \A k \in 1..Len(lines) :
         LET line == lines[k] IN
         /\ Len(line) = 12
         /\ <<line[1], line[3], line[5], line[7], line[9], line[11]>> =
              <<FEATURESTORES, ENTITY_TYPES, ENTITIES, FEATURES, FEATURE_DATA_TYPES,
                FEATURE_VALUES>>
         /\ <<line[2], line[4], line[6], line[8], line[12]>> \in content
         /\ line[10] =
              ValueTypeName[
                DefaultGet(EntityTypeOf(fss, line[2], line[4]).features_metadata,
                           line[8], FeatureMetadata).data_type]
         /\ line[10] = Upper(line[10])
    /\ \A k \in 1..Len(lines) : \A l \in (k + 1)..Len(lines) :
         Before(positions[k], positions[l])

\* C14: the file _write_to_file leaves reads, as '/'-delimited CSV, as exactly
\* one 12-token line for every (featurestore, entity type, entity, feature) of
\* the model and no other line, in the insertion order of featurestores, then
\* entity types, then entities, then features; the data-type token of a line
\* is the upper-case name of the type recorded for the feature in its entity
\* type.
C14_WriteToFileLines ==
  [][pc = "write_to_file"
       => /\ export_file' # NoFile
          /\ \E lines \in {CsvReader(export_file', "/")} :
               IsFlatFileOf(lines, featurestores_data)]_vars

\* a file of two featurestores was written, the entity 'e' before the entity
\* 'd/', with a line feed in a value
C14_Witness ==
  /\ pc = "returned"
  /\ export_file # NoFile
  /\ Len(featurestores_data) = 2
  /\ Len(featurestores_data[1].val.entity_types[1].val.entities) = 2
  /\ Len(CsvReader(export_file, "/")) = 5
  /\ \E t \in Content(featurestores_data) : t[5] = <<"/", "\"", "\n">>

\* C15: the staging CSV uploaded for an entity type is a header row, the
\* entity-id column followed by every feature id of the entity type's metadata
\* in insertion order, then exactly one row per entity in insertion order;
\* every row has as many columns as the header, its first column is the
\* entity id and the column under a feature id is the entity's value for that
\* feature, the empty string when the entity has none.
C15_StagingCsv ==
  [][(pc = "upload_data_file" /\ pc' = "run_data_ingestion_job")
       => \E entity_type \in {StepEntityType} :
          \E rows \in {CsvReader(CsvWriteRows(Get(bucket', blob.filename), ","), ",")} :
            /\ rows = Get(bucket', blob.filename)
            /\ Len(rows) = 1 + Len(entity_type.entities)
            /\ \E uuid4 \in Uuid4Prefixes : rows[1][1] = ENTITY_ID_ \o uuid4
            /\ Tail(rows[1]) = Keys(entity_type.features_metadata)
            /\ \A k \in 1..Len(entity_type.entities) :
                 /\ Len(rows[k + 1]) = Len(rows[1])
                 /\ rows[k + 1][1] = entity_type.entities[k].key
                 /\ \A i \in 2..Len(rows[1]) :
                      rows[k + 1][i] =
                        IF HasValue(entity_type, rows[k + 1][1], rows[1][i])
                          THEN ValueOf(entity_type, rows[k + 1][1], rows[1][i])
                          ELSE <<>>]_vars

\* a staged CSV of two features and two entities, each entity with a value
\* for one of the features and an empty column for the other
C15_Witness ==
  /\ pc = "run_data_ingestion_job"
  /\ Has(bucket, blob.filename)
  /\ \E rows \in {Get(bucket, blob.filename)} :
       /\ Len(rows) = 3
       /\ Len(rows[1]) = 3
       /\ rows[2][3] = <<>> /\ rows[2][2] # <<>>
       /\ rows[3][2] = <<>> /\ rows[3][3] # <<>>

(***************************************************************************)
(* Claims about the errors of DataExporter.execute (SpecExport).           *)
(***************************************************************************)
\* C16: when export_feature_values(...).result() or download_as_bytes raises,
\* execute ends with that very error, not with one raised by the clean-up,
\* and the export of the entity type is requested once only.
C16_ExportErrorsSurface ==
  /\ \A k \in 1..Len(steps) :
       /\ (steps[k].left /\ steps[k].export = "raised")
            => pc = "raised" /\ error = "export_feature_values"
       /\ (steps[k].left /\ steps[k].download = "raised")
            => pc = "raised" /\ error = "download_as_bytes"
  /\ Cardinality({i \in 1..Len(calls) : calls[i].op = "export_feature_values"})
       <= Len(steps)
  /\ pc = "raised" => \A k \in 1..(Len(steps) - 1) :
                        "raised" \notin {steps[k].export, steps[k].download}

(***************************************************************************)
(* Claims about FrameworkRunner.execute (SpecRunner).                      *)
(***************************************************************************)
\* C17: with cluster_size greater than target_qps execute raises and makes no
\* request at all, so no BigQuery dataset, no GKE cluster and no Kubernetes
\* job is created; with cluster_size at most target_qps the check raises
\* nothing and execute goes on to the dataset or the cluster.
C17_ClusterSizeCheck ==
  /\ [](cluster_size > target_qps
          => /\ pc \in {"execute", "raised"}
             /\ pc = "raised" => error = "cluster_size"
             /\ calls = <<>>
             /\ dataset_id \in {<<>>, <<"d","s">>}
             /\ cluster_name = <<>>)
  /\ [][pc = "execute"
         => IF cluster_size > target_qps
              THEN pc' = "raised" /\ error' = "cluster_size"
              ELSE /\ pc' \in {"create_bq_dataset", "create_cluster"}
                   /\ error' = NoException]_vars

\* execute has refused a cluster of three pods for a target of two QPS
C17_Witness ==
  /\ pc = "raised"
  /\ error = "cluster_size"
  /\ cluster_size = 3
  /\ target_qps = 2
  /\ calls = <<>>

\* the cluster-delete requests execute has issued
DeleteRequests == SelectSeq(calls, LAMBDA call : call.op = "delete_cluster")

\* the cluster is the runner's own and is not to be kept
OwnClusterToDelete == ~keep_cluster /\ existing_cluster_name = <<>>

\* C18: when execute leaves the job phase (credentials, job creation, job
\* waiting), with or without an exception pending, it issues one delete
\* request for the cluster it obtained if keep_cluster is false and no
\* existing cluster name was given, and none otherwise; no delete request is
\* issued before that and none after it, so a run that obtained a cluster name
\* ends with exactly one delete request for its own cluster and with none for
\* a kept or a user-supplied one.
C18_ClusterLifecycle ==
  /\ [](/\ Len(DeleteRequests) <= 1
        /\ Len(DeleteRequests) = 1
             => /\ OwnClusterToDelete
                /\ cluster_name # <<>>
                /\ DeleteRequests[1].name = cluster_name
                /\ pc \in {"wait_for_delete_operation", "returned", "raised"}
        /\ (cluster_name # <<>> /\ pc \in {"wait_for_delete_operation", "returned", "raised"})
             => Len(DeleteRequests) = IF OwnClusterToDelete THEN 1 ELSE 0)
  /\ [][pc = "finally"
         => /\ cluster_name # <<>>
            /\ Len(DeleteRequests) = 0
            /\ pc' # "finally"
            /\ Len(DeleteRequests') = IF OwnClusterToDelete THEN 1 ELSE 0]_vars

\* loading the credentials raised, the runner's own cluster was deleted, and
\* execute ended with the error of the credentials
C18_Witness ==
  /\ pc = "raised"
  /\ error = "load_credentials"
  /\ OwnClusterToDelete
  /\ Len(DeleteRequests) = 1
  /\ DeleteRequests[1].name = cluster_name
  /\ cluster_name = ClusterName(<<"d","3","d","7","5">>)

\* a wait loop is running
WaitLoops == {"wait_for_create_operation", "job_status_loop", "wait_for_delete_operation"}

\* the step is a sleep after which 'Maximum wait time exceeded' was raised: the
\* loop is left with the sleep counted and the exception pending or raised
TimedOut ==
  /\ pc' # pc
  /\ sleeps' = sleeps + 1
  /\ \/ pc' = "raised" /\ error' = MAX_WAIT_EXCEEDED
     \/ pc' = "finally" /\ pending' = MAX_WAIT_EXCEEDED

\* C19: every iteration of a wait loop sleeps once and adds 15 seconds to the
\* wait; 'Maximum wait time exceeded' is raised by the iteration whose sleep
\* takes the wait over 1800 seconds and by no other, which is the 121st; an
\* iteration that does not raise it ends the wait (the operation is DONE, the
\* job has succeeded or failed, or the request raised) or leaves a wait of at
\* most 1800 seconds; and every wait loop that is running comes to an end.
C19_PollingTerminates ==
  /\ [](/\ current_wait = WAIT_TIME_PER_ITERATION_SECONDS * sleeps
        /\ sleeps <= 121
        /\ pc \in WaitLoops => current_wait <= MAX_WAIT_TIME_SECONDS)
  /\ [][(pc \in WaitLoops)
         => /\ (TimedOut <=>
                  (current_wait + WAIT_TIME_PER_ITERATION_SECONDS > MAX_WAIT_TIME_SECONDS))
            /\ (TimedOut => sleeps' = 121)
            /\ (pc' = pc =>
                  (/\ sleeps' = sleeps + 1
                   /\ current_wait' = current_wait + WAIT_TIME_PER_ITERATION_SECONDS))
            /\ (pc' # pc => pc' \notin WaitLoops)]_vars
  /\ \A loop \in WaitLoops : (pc = loop) ~> (pc # loop)

\* the wait for the create operation has raised after its 121st sleep
C19_Witness ==
  /\ pc = "raised"
  /\ error = MAX_WAIT_EXCEEDED
  /\ sleeps = 121
  /\ current_wait = 1815
  /\ Len(DeleteRequests) = 0

(***************************************************************************)
(* Claims about the order of the calls of DataImporter.execute             *)
(* (SpecImport).                                                           *)
(***************************************************************************)
SchemaOps == {"create_featurestore", "create_entity_type", "batch_create_features"}

\* C20: a featurestore-service call that raises is the last call of the run;
\* a create_entity_type call comes after the create_featurestore call of its
\* featurestore, and a batch_create_features call right after the
\* create_entity_type call of its entity type; an upload step or an ingestion
\* job is begun only after the create calls of every featurestore, entity
\* type and feature set of the model have been made and have returned; and
\* after a create call has raised no upload step is ever begun.
C20_ImportOrdering ==
  /\ \A i \in 1..Len(calls) :
       /\ calls[i].op = "create_entity_type"
            => \E j \in 1..(i - 1) :
                 /\ calls[j].op = "create_featurestore"
                 /\ calls[j].featurestore_id = calls[i].featurestore_id
       /\ calls[i].op = "batch_create_features"
            => /\ i > 1
               /\ calls[i - 1].op = "create_entity_type"
               /\ calls[i - 1].featurestore_id = calls[i].featurestore_id
               /\ calls[i - 1].entity_type_id = calls[i].entity_type_id
       /\ calls[i].op = "import_feature_values"
            => /\ i > Len(CreateSchema(featurestores))
               /\ steps # <<>>
  /\ (steps # <<>> \/ bucket # <<>> \/ blob # NoBlob \/ ingested # <<>>)
       => /\ Len(calls) >= Len(CreateSchema(featurestores))
          /\ SubSeq(calls, 1, Len(CreateSchema(featurestores))) = CreateSchema(featurestores)
          /\ error \notin SchemaOps
  /\ error \in SchemaOps
       => /\ pc = "raised"
          /\ calls[Len(calls)].op = error
          /\ calls = SubSeq(CreateSchema(featurestores), 1, Len(calls))
          /\ steps = <<>> /\ bucket = <<>> /\ blob = NoBlob /\ ingested = <<>>
  /\ error = "import_feature_values" => calls[Len(calls)].op = error

\* the schema of two featurestores was created, then the first ingestion job
\* was run
C20_Witness ==
  /\ Len(featurestores) = 2
  /\ Len(calls) = 7
  /\ calls[7].op = "import_feature_values"
  /\ calls[4].op = "create_featurestore"
  /\ Len(steps) = 1

(***************************************************************************)
(* Claims about the staging objects of both tools (SpecConstruct).         *)
(***************************************************************************)
\* where execute is between the entry of a step's try block and the end of
\* its finally clause
InStep ==
  pc \in {"upload_data_file", "run_data_ingestion_job", "delete_blob",
          "export_feature_values", "download_as_bytes",
          "process_entities_and_features", "exporter_delete_blob"}

\* the object is named after the entity type of the step
NamedAfter(filename, entity_type_id) ==
  \E uuid4 \in Uuid4Prefixes :
    filename \in {BlobFilename(entity_type_id, uuid4), ExportBlobName(entity_type_id, uuid4)}

\* C21: at every point of an import or export run at most one staging object
\* of the run exists; an object comes to exist only inside the step of its own
\* entity type, under the name of that step's blob; it is gone when the step
\* is left, hence before the next step begins and before the run returns or
\* raises.
C21_StagingObjectsScoped ==
  /\ [](/\ Len(bucket) <= 1
        /\ bucket # <<>>
             => /\ InStep
                /\ steps # <<>>
                /\ ~steps[Len(steps)].left
                /\ KeySet(bucket) = {blob.filename}
                /\ NamedAfter(blob.filename, steps[Len(steps)].entity_type_id)
        /\ ~InStep => bucket = <<>>)
  /\ [][/\ (bucket = <<>> /\ bucket' # <<>>)
             => pc \in {"upload_data_file", "export_feature_values"}
        /\ (InStep /\ ~InStep') => bucket' = <<>>
        /\ (Len(steps') > Len(steps)) => bucket = <<>> /\ bucket' = <<>>]_vars

\* a second step was entered after the object of the first was staged and
\* deleted, and its own object is staged
C21_Witness ==
  /\ Len(steps) = 2
  /\ steps[1].deletes = 1
  /\ \E k \in 1..Len(ingested) : ingested[k].entity_type_id = steps[1].entity_type_id
  /\ Len(bucket) = 1
  /\ pc = "delete_blob"

(***************************************************************************)
(* SpecDecode: _process_entities_and_features over the CSV of an export    *)
(* job, for every order of its columns.  execute has listed one            *)
(* featurestore with one entity type, the export job has returned and its  *)
(* file has been downloaded into the buffer.                               *)
(***************************************************************************)
\* the columns of the tests: the timestamp, the entity id and two features
DecodeColumns == <<FEATURE_TIMESTAMP, ENTITY_TYPE_ \o DOG, <<"x">>, <<"y">>>>

\* two entities, in the order of DecodeColumns
DecodeRows == <<<<<<"T">>, <<"e">>, <<"1">>, <<"2">>>>,
                <<<<"T">>, <<"d">>, <<"3">>, <<>>>>>>

ColumnOrders(n) == {p \in [1..n -> 1..n] : \A i, j \in 1..n : i # j => p[i] # p[j]}

Permuted(fields, p) == [i \in 1..Len(fields) |-> fields[p[i]]]

\* the files an export job can leave: the columns in any order, one or two entities
DecodeCsvFiles ==
  {CsvWriteRows(<<Permuted(DecodeColumns, p)>>
                  \o [r \in 1..n |-> Permuted(DecodeRows[r], p)], ",") :
     p \in ColumnOrders(Len(DecodeColumns)), n \in 1..Len(DecodeRows)}

InitDecode ==
  /\ InitParseVars
  /\ InitRunnerVars
  /\ InitConfigVars
  /\ import_file = <<>>
  /\ run = 1
  /\ client_created = TRUE
  /\ featurestore_id_regex = <<".", "*">>
  /\ entity_type_id_regex = <<".", "*">>
  /\ featurestore_objects = <<[name |-> FeaturestoreName(DOG)]>>
  /\ entity_type_objects = <<[name |-> EntityTypeName(FeaturestoreName(DOG), DOG)]>>
  /\ fs_i = 1
  /\ et_j = 1
  /\ calls = <<ExporterCall("list_featurestores", COMMON_LOCATION_PATH),
               ExporterCall("list_entity_types", FeaturestoreName(DOG)),
               ExporterCall("list_features", EntityTypeName(FeaturestoreName(DOG), DOG)),
               [ExporterCall("export_feature_values",
                             EntityTypeName(FeaturestoreName(DOG), DOG))
                  EXCEPT !.featurestore_id = DOG, !.entity_type_id = DOG]>>
  /\ schema_k = 1
  /\ step_k = 1
  /\ steps = <<[featurestore_id |-> DOG, entity_type_id |-> DOG,
                export |-> "returned", download |-> "returned", decode |-> "none",
                deletes |-> 0, left |-> FALSE]>>
  /\ \E uuid4 \in Uuid4Prefixes : blob = [filename |-> ExportBlobName(DOG, uuid4)]
  /\ csv_file \in DecodeCsvFiles
  /\ bucket = Put(<<>>, blob.filename, csv_file)
  /\ pending = NoException
  /\ error = NoException
  /\ ingested = <<>>
  /\ remote_created = <<>>
  /\ \E features \in ListFeatures(EntityTypeName(FeaturestoreName(DOG), DOG)) :
       featurestores_data =
         Put(<<>>, DOG,
             [Featurestore EXCEPT !.entity_types =
                Put(@, DOG, ExportFeatureMetadata(EntityType, features))])
  /\ export_file = NoFile
  /\ pc = "process_entities_and_features"

NextDecode ==
  \/ ProcessCsvFile
  \/ ExporterDeleteBlob
  \/ WriteToFile

SpecDecode == InitDecode /\ [][NextDecode]_vars

(***************************************************************************)
(* Claims about the decoding of the exported CSV (SpecDecode).             *)
(***************************************************************************)
\* the buffer has just been decoded into the model
Decoded ==
  /\ pc = "process_entities_and_features"
  /\ steps'[Len(steps')].decode = "returned"

\* column c of the header carries the entity id
EntityIdColumn(header, c) == header[c] = ENTITY_TYPE_ \o CurrentEntityTypeId

\* C22: for every data row and every order of the header columns, the value
\* of the column named entity_type_<entity type id> is the row's entity id,
\* the feature_timestamp column is skipped, and the value of every other
\* column is stored as that feature's value under the entity id of the same
\* row, never under the empty entity id.
C22_ExportedCsvDecoding ==
  [][Decoded
       => \E rows \in {CsvReader(csv_file, ",")} :
          \E entity_type \in {CurrentEntityType'} :
            /\ ~Has(entity_type.entities, <<>>)
            /\ \A r \in 2..Len(rows), c, i \in 1..Len(rows[1]) :
                 EntityIdColumn(rows[1], c)
                   => /\ Has(entity_type.entities, rows[r][c])
                      /\ ~HasValue(entity_type, rows[r][c], FEATURE_TIMESTAMP)
                      /\ (i # c /\ rows[1][i] # FEATURE_TIMESTAMP)
                           => /\ HasValue(entity_type, rows[r][c], rows[1][i])
                              /\ ValueOf(entity_type, rows[r][c], rows[1][i]) = rows[r][i]]_vars

(***************************************************************************)
(* Claims about a failing upload step of DataImporter.execute (SpecImport).*)
(***************************************************************************)
\* the exception the try block of upload step k raised, if any
StepFailure(k) ==
  IF steps[k].upload = "raised" THEN "upload_from_file"
  ELSE IF steps[k].ingestion = "raised" THEN "import_feature_values"
  ELSE NoException

\* C23: when the staging upload or the ingestion job of an entity type
\* raises, that step is the last one entered (nothing is uploaded or ingested
\* for the entity types after it), the entity types before it stay ingested,
\* and once the step is left execute has ended with that error and the staging
\* object is gone.
C23_UploadFailureAborts ==
  \A k \in 1..Len(steps) :
    StepFailure(k) # NoException
      => /\ k = Len(steps)
         /\ Len(ingested) = k - 1
         /\ \A n \in 1..(k - 1) :
              /\ steps[n].ingestion = "returned"
              /\ ingested[n].featurestore_id = steps[n].featurestore_id
              /\ ingested[n].entity_type_id = steps[n].entity_type_id
         /\ \A n \in 1..Len(calls) :
              calls[n].op = "import_feature_values"
                => \E m \in 1..k : /\ calls[n].featurestore_id = steps[m].featurestore_id
                                   /\ calls[n].entity_type_id = steps[m].entity_type_id
                                   /\ steps[m].upload = "returned"
         /\ steps[k].left
              => /\ pc = "raised"
                 /\ error = StepFailure(k)
                 /\ steps[k].deletes = 1
                 /\ bucket = <<>>

(***************************************************************************)
(* Claims about the jobs of FrameworkRunner (SpecRunner).                  *)
(***************************************************************************)
\* the (pods, target_qps) of the jobs created so far, in order
JobsCreated ==
  LET created == SelectSeq(calls, LAMBDA call : call.op = "create_job")
  IN  [k \in 1..Len(created) |->
         [pods |-> created[k].pods, target_qps |-> created[k].target_qps]]

\* _create_jobs has returned and the jobs are being waited for
JobsReturned == pc \in {"wait_for_job_to_complete", "job_status_loop"}

\* the pods of the jobs, and the QPS their pods ask for together
RECURSIVE TotalPods(_)
TotalPods(jobs) ==
  IF jobs = <<>> THEN 0 ELSE Head(jobs).pods + TotalPods(Tail(jobs))

RECURSIVE TotalQps(_)
TotalQps(jobs) ==
  IF jobs = <<>> THEN 0
  ELSE Head(jobs).pods * Head(jobs).target_qps + TotalQps(Tail(jobs))

\* C24: for 1 <= cluster_size <= target_qps, _create_jobs creates one job of
\* cluster_size pods at target_qps / cluster_size QPS when cluster_size
\* divides target_qps, and otherwise a job of cluster_size - 1 pods at the
\* floor of the quotient and a job of one pod at the floor plus the remainder;
\* the pods sum to cluster_size, the QPS of all pods to target_qps, and every
\* job has a pod.
C24_JobSplit ==
  JobsReturned
    => /\ 1 <= cluster_size /\ cluster_size <= target_qps
       /\ IF target_qps % cluster_size = 0
            THEN JobsCreated =
                   <<[pods |-> cluster_size, target_qps |-> target_qps \div cluster_size]>>
            ELSE JobsCreated =
                   <<[pods |-> cluster_size - 1, target_qps |-> target_qps \div cluster_size],
                     [pods |-> 1,
                      target_qps |-> (target_qps \div cluster_size)
                                       + (target_qps % cluster_size)]>>
       /\ TotalPods(JobsCreated) = cluster_size
       /\ TotalQps(JobsCreated) = target_qps
       /\ \A k \in 1..Len(JobsCreated) : JobsCreated[k].pods >= 1

\* 4 QPS over 3 pods: two pods at 1 QPS and one pod at 2 QPS
C24_Witness ==
  /\ JobsReturned
  /\ target_qps = 4
  /\ cluster_size = 3
  /\ JobsCreated = <<[pods |-> 2, target_qps |-> 1], [pods |-> 1, target_qps |-> 2]>>

(***************************************************************************)
(* Claims about the shape of the parsed model (SpecParse).                 *)
(***************************************************************************)
\* C25: in the model _parse_schema_and_data has built, every featurestore has
\* an entity type, every entity type has a feature metadata entry and an
\* entity, and every id the map maps has a featurestore that holds a value: a
\* 12-token line whose value is dropped leaves no featurestore, entity type or
\* map entry behind.
C25_NoEmptyContainers ==
  /\ \A i \in 1..Len(featurestores) :
       /\ featurestores[i].val.entity_types # <<>>
       /\ \A j \in 1..Len(featurestores[i].val.entity_types) :
            /\ featurestores[i].val.entity_types[j].val.features_metadata # <<>>
            /\ featurestores[i].val.entity_types[j].val.entities # <<>>
  /\ \A m \in 1..Len(featurestore_id_map) :
       \E cell \in Content(featurestores) : cell[1] = featurestore_id_map[m].val

\* C26: after any sequence of lines, every feature id that carries a value in
\* some entity has a metadata entry in the same entity type, and every
\* recorded type is a scalar value type: no array type and not
\* VALUE_TYPE_UNSPECIFIED.
C26_TypedValues ==
  \A i \in 1..Len(featurestores) :
    \A j \in 1..Len(featurestores[i].val.entity_types) :
      \E entity_type \in {featurestores[i].val.entity_types[j].val} :
        /\ \A k \in 1..Len(entity_type.entities) :
             KeySet(entity_type.entities[k].val.features)
               \subseteq KeySet(entity_type.features_metadata)
        /\ \A m \in 1..Len(entity_type.features_metadata) :
             /\ entity_type.features_metadata[m].val.data_type \in ValueType
             /\ entity_type.features_metadata[m].val.data_type \notin ArrayValueTypes
             /\ entity_type.features_metadata[m].val.data_type # VALUE_TYPE_UNSPECIFIED

(***************************************************************************)
(* Claims about what encoding does to the Data Model (SpecConstruct).      *)
(***************************************************************************)
\* C27: writing an entity type to the staging CSV (_upload_data_file) and
\* writing the model to the flat file (_write_to_file) leave the Data Model
\* as it was: no entity, feature value or metadata entry is added.
C27_EncodingLeavesModelUnchanged ==
  [][/\ (pc = "upload_data_file") => featurestores' = featurestores
     /\ (pc = "write_to_file") => featurestores_data' = featurestores_data]_vars

(***************************************************************************)
(* Claims about the cluster FrameworkRunner creates (SpecRunner).          *)
(***************************************************************************)
\* the create requests for a cluster that GKE accepted
CreateRequests ==
  IF pc = "raised" /\ error = "create_cluster" THEN <<>>
  ELSE SelectSeq(calls, LAMBDA call : call.op = "create_cluster")

\* C28: when execute has issued a create request for its own cluster and
\* keep_cluster is false, a delete request for that cluster has been issued
\* by the time execute returns or raises, also when the wait for the create
\* operation exceeds the maximum wait time.
C28_NoClusterLeak ==
  (pc \in {"returned", "raised"} /\ ~keep_cluster)
    => \A k \in 1..Len(CreateRequests) :
         \E n \in 1..Len(DeleteRequests) : DeleteRequests[n].name = CreateRequests[k].name

\* a state SpecRunner reaches: the wait for the create operation timed out
\* and execute raised without a delete request
CreateWaitTimedOut ==
  /\ pc = "raised"
  /\ error = MAX_WAIT_EXCEEDED
  /\ sleeps = 121
  /\ ~keep_cluster
  /\ Len(CreateRequests) = 1
  /\ DeleteRequests = <<>>

(***************************************************************************)
(* Claims about the export file (SpecExport).                              *)
(***************************************************************************)
\* every listed featurestore the filter keeps is in the model, and every
\* entity type in the model has been exported and decoded
AllExported ==
  /\ \A i \in 1..Len(featurestore_objects) :
       ReMatch(featurestore_id_regex, LastSegment(featurestore_objects[i].name))
         => /\ Has(featurestores_data, LastSegment(featurestore_objects[i].name))
            /\ \E k \in 1..Len(calls) :
                 /\ calls[k].op = "list_entity_types"
                 /\ calls[k].arg = featurestore_objects[i].name
  /\ \A i \in 1..Len(featurestores_data) :
       \A j \in 1..Len(featurestores_data[i].val.entity_types) :
         \E n \in 1..Len(steps) :
           /\ steps[n].featurestore_id = featurestores_data[i].key
           /\ steps[n].entity_type_id = featurestores_data[i].val.entity_types[j].key
  /\ \A n \in 1..Len(steps) :
       /\ steps[n].export = "returned"
       /\ steps[n].download = "returned"
       /\ steps[n].decode = "returned"
       /\ steps[n].left

\* C29: the export file is opened and written only by _write_to_file, after
\* the listing and the export of every matching entity type have completed;
\* when a listing, export, download or decode step raised, the file is never
\* opened or written.
C29_NoPartialExportOutput ==
  /\ [](/\ export_file # NoFile => (pc = "returned" /\ error = NoException /\ AllExported)
        /\ pc = "raised" => export_file = NoFile
        /\ pc = "write_to_file" => AllExported)
  /\ [][/\ (export_file' # export_file) => (pc = "write_to_file" /\ export_file = NoFile)
        /\ (pc = "raised") => UNCHANGED vars]_vars

\* four entity types were exported, then the file was written
C29_Witness ==
  /\ pc = "returned"
  /\ export_file # NoFile
  /\ Len(export_file) > 0
  /\ Len(steps) = 4

(***************************************************************************)
(* Claims about the featurestore-id map (SpecParse).                       *)
(***************************************************************************)
\* the featurestore ids the rows of the files name
OriginalIds == {r[2] : r \in WellFormedRows}

\* C30: two distinct original featurestore ids have distinct mapped ids,
\* whatever suffixes are drawn for them; each id of the map has a featurestore
\* of its own in the model, and a line changes no featurestore but the one its
\* own id is mapped to.
C30_MappingInjective ==
  /\ [](/\ \A a, b \in OriginalIds : \A s, t \in Uuid4Prefixes :
             a # b => MappedName(a, s) # MappedName(b, t)
        /\ \A i, j \in 1..Len(featurestore_id_map) :
             i # j => featurestore_id_map[i].val # featurestore_id_map[j].val
        /\ Len(featurestores) = Len(featurestore_id_map)
        /\ Cardinality(KeySet(featurestores)) = Cardinality(originals))
  /\ [][\E v \in {ParseValues(row')} :
          v.success
            => \A i \in 1..Len(featurestores) :
                 featurestores[i].key # Get(featurestore_id_map', v.featurestore_id)
                   => /\ Has(featurestores', featurestores[i].key)
                      /\ Get(featurestores', featurestores[i].key) = featurestores[i].val]_vars

\* the ids f and f_d3d75 are both in the file, f was given the suffix d3d75,
\* and the model has a featurestore for each
C30_Witness ==
  /\ Has(featurestore_id_map, <<"f">>)
  /\ Get(featurestore_id_map, <<"f">>) = <<"f","_","d","3","d","7","5">>
  /\ Has(featurestore_id_map, <<"f","_","d","3","d","7","5">>)
  /\ Len(featurestores) = 2
  /\ \A i \in 1..Len(featurestores) : Content(<<featurestores[i]>>) # {}

====
